---- MODULE Spec2Model ----
(***************************************************************************)
(* A model of the rCore-style teaching kernel of this repository:          *)
(*   - the sync crate (blocking mutex, condvar, semaphore),                *)
(*   - the signal-impl crate (per-process signal state machine),           *)
(*   - the threaded kernel ch8 (dispatch loop, syscall handlers) on top of *)
(*     task-manage's PThreadManager and the syscall crate's dispatcher.    *)
(*                                                                         *)
(* Library objects are modelled as pure operators on records, so that the  *)
(* same definitions serve the crate-level specifications (an object under  *)
(* arbitrary API calls) and the kernel-level specifications (the objects   *)
(* owned by a process and driven by syscalls).                             *)
(***************************************************************************)
EXTENDS Integers, Sequences, FiniteSets, TLC

VARIABLES
    overflowChecks, \* build profile: TRUE = arithmetic overflow panics (debug)
    mutex,          \* a MutexBlocking under test          (sync crate)
    mutexLog,       \* the calls made on it, with their results
    sem,            \* a Semaphore under test               (sync crate)
    semLog,         \* the calls made on it, with their results
    panicked,       \* a Rust panic has been raised by a library call
    sig,            \* a SignalImpl under test             (signal-impl crate)
    sigCtx,         \* the LocalContext handed to handle_signals / sig_return
    sigRes,         \* what the last call on sig was and what it returned
    kernel,         \* the threaded kernel ch8: PThreadManager and its tables
    lastTrap,       \* what the last iteration of the dispatch loop handled
    pman,           \* the process kernel ch6: PManager and its tables
    pmLog,          \* its last iteration and the exits and reaps so far
    portal,         \* the portal page and the last use made of a cache slot
    prog,           \* the user program text of a scripted run (else empty)
    trace,          \* the syscalls of a scripted run, where recorded
    umem            \* the user-memory buffer of a scripted run

mutexVars == <<mutex, mutexLog>>
semVars == <<sem, semLog>>
sigVars == <<sig, sigCtx, sigRes>>
procVars == <<pman, pmLog>>
portalVars == <<portal>>
kernVars == <<kernel, lastTrap, prog, trace, umem, procVars, portalVars>>
vars == <<overflowChecks, mutex, mutexLog, sem, semLog, panicked,
          sig, sigCtx, sigRes, kernel, lastTrap, pman, pmLog, portal,
          prog, trace, umem>>

(***************************************************************************)
(* Bounds of the model                                                     *)
(***************************************************************************)
MaxTid == 3         \* thread identifiers handed to the library: 1..MaxTid
MaxOps == 6         \* calls recorded in a crate-level call log
WordBits == 5       \* width of usize/isize in the model (64 in the build)
MaxThreads == 3     \* thread ids the kernel hands out under free user code
MaxSemaphores == 2  \* semaphores a process owns under free user code
MaxMutexes == 1     \* mutexes a process owns under free user code
MaxCondvars == 1    \* condvars a process owns under free user code
Rounds == 2         \* rounds (and buffer slots) of the producer/consumer run
MaxSigProcs == 2    \* processes of the run that exchanges signals
MaxPid == 2         \* the highest process id fork hands out
MaxRoots == 3       \* root pages handed out before user code stops calling exec
MaxSlots == 3       \* cache slots of the portal page
PortalBytes == 512  \* bytes of the portal page that are modelled
MaxRuns == 2        \* times the trampoline is entered

Tids == 1..MaxTid

(***************************************************************************)
(* Option<T>: None is the empty sequence, Some(x) the one-element sequence *)
(***************************************************************************)
None == <<>>
Some(x) == <<x>>
IsSome(o) == o # <<>>
Unwrap(o) == o[1]

(***************************************************************************)
(* Machine integers.  usize is 0..2^w-1, isize is -2^(w-1)..2^(w-1)-1.     *)
(***************************************************************************)
Pow2(n) == LET RECURSIVE P(_)
               P(k) == IF k = 0 THEN 1 ELSE 2 * P(k - 1)
           IN P(n)
UsizeMax == Pow2(WordBits) - 1
IsizeMax == Pow2(WordBits - 1) - 1
IsizeMin == 0 - Pow2(WordBits - 1)
Usize == 0..UsizeMax
Isize == IsizeMin..IsizeMax

\* `u as isize`: reinterpret the bit pattern (two's complement)
AsIsize(u) == IF u > IsizeMax THEN u - Pow2(WordBits) ELSE u
\* `i as usize`
AsUsize(i) == IF i < 0 THEN i + Pow2(WordBits) ELSE i
\* the value a wrapping isize operation leaves
WrapIsize(x) == AsIsize(x % Pow2(WordBits))
IsizeOverflows(x) == x > IsizeMax \/ x < IsizeMin

(***************************************************************************)
(* sync crate: MutexBlocking                                               *)
(***************************************************************************)
MutexBlockingNew == [locked |-> FALSE, waiting |-> <<>>]

\* Mutex::lock for MutexBlocking: the new state and the returned bool
MutexLock(m, tid) ==
    IF m.locked
    THEN [m |-> [m EXCEPT !.waiting = Append(@, tid)], ret |-> FALSE]
    ELSE [m |-> [m EXCEPT !.locked = TRUE], ret |-> TRUE]

\* a faulty unlock that releases the lock while it hands it to a waiter
MutexUnlockClearsFlag(m) ==
    IF ~m.locked
    THEN [m |-> m, ret |-> None, panic |-> TRUE]
    ELSE IF m.waiting # <<>>
    THEN [m |-> [locked |-> FALSE, waiting |-> Tail(m.waiting)],
          ret |-> Some(Head(m.waiting)), panic |-> FALSE]
    ELSE [m |-> [m EXCEPT !.locked = FALSE], ret |-> None, panic |-> FALSE]

\* a faulty unlock that wakes the most recent waiter (pop_back)
MutexUnlockLifo(m) ==
    IF ~m.locked
    THEN [m |-> m, ret |-> None, panic |-> TRUE]
    ELSE IF m.waiting # <<>>
    THEN [m |-> [m EXCEPT !.waiting = SubSeq(@, 1, Len(@) - 1)],
          ret |-> Some(m.waiting[Len(m.waiting)]), panic |-> FALSE]
    ELSE [m |-> [m EXCEPT !.locked = FALSE], ret |-> None, panic |-> FALSE]

\* Mutex::unlock for MutexBlocking: the new state, the returned
\* Option<ThreadId>, and whether the call panicked instead of returning
MutexUnlock(m) ==
    IF ~m.locked
    THEN [m |-> m, ret |-> None, panic |-> TRUE]
    ELSE IF m.waiting # <<>>
    THEN [m |-> [m EXCEPT !.waiting = Tail(@)],
          ret |-> Some(Head(m.waiting)), panic |-> FALSE]
    ELSE [m |-> [m EXCEPT !.locked = FALSE], ret |-> None, panic |-> FALSE]

(***************************************************************************)
(* sync crate: Condvar                                                     *)
(***************************************************************************)
CondvarNew == <<>>

\* Condvar::signal: pop the front waiter
CondvarSignal(q) ==
    IF q # <<>> THEN [q |-> Tail(q), ret |-> Some(Head(q))]
                ELSE [q |-> q, ret |-> None]

\* a faulty wait_no_sched that forgets to queue the caller
CondvarWaitNoSchedDrops(q, tid) == [q |-> q, ret |-> FALSE]

\* Condvar::wait_no_sched: push the caller, report "not scheduled"
CondvarWaitNoSched(q, tid) == [q |-> Append(q, tid), ret |-> FALSE]

(***************************************************************************)
(* sync crate: Semaphore                                                   *)
(***************************************************************************)
\* Semaphore::new(res_count: usize): count = res_count as isize
SemaphoreNew(res_count) == [count |-> AsIsize(res_count), waiting |-> <<>>]

\* Semaphore::down: `count -= 1` on an isize, then queue if negative
SemaphoreDown(s, tid, checks) ==
    IF IsizeOverflows(s.count - 1) /\ checks
    THEN [s |-> s, ret |-> FALSE, panic |-> TRUE]
    ELSE LET c == WrapIsize(s.count - 1) IN
         IF c < 0
         THEN [s |-> [count |-> c, waiting |-> Append(s.waiting, tid)],
               ret |-> FALSE, panic |-> FALSE]
         ELSE [s |-> [s EXCEPT !.count = c], ret |-> TRUE, panic |-> FALSE]

\* Semaphore::up: `count += 1`, then pop the front waiter if any
SemaphoreUp(s, checks) ==
    IF IsizeOverflows(s.count + 1) /\ checks
    THEN [s |-> s, ret |-> None, panic |-> TRUE]
    ELSE LET c == WrapIsize(s.count + 1) IN
         IF s.waiting # <<>>
         THEN [s |-> [count |-> c, waiting |-> Tail(s.waiting)],
               ret |-> Some(Head(s.waiting)), panic |-> FALSE]
         ELSE [s |-> [s EXCEPT !.count = c], ret |-> None, panic |-> FALSE]

(***************************************************************************)
(* kernel-context crate: LocalContext.  Of the 31 integer registers the    *)
(* model keeps a0 and a1; pc is sepc.                                      *)
(***************************************************************************)
\* LocalContext::user(pc), with the registers zeroed
LocalContextUser(pc) == [pc |-> pc, a0 |-> 0, a1 |-> 0]

(***************************************************************************)
(* signal-defs crate                                                       *)
(***************************************************************************)
MAX_SIG == 31
SIGKILL == 9
SIGUSR1 == 10
SIGCHLD == 17
SIGCONT == 18
SIGSTOP == 19
SIGURG == 23

\* the discriminants of SignalNo: ERR = 0, SIGHUP = 1 .. SIGRT31 = 63
SignalNoValues == 0..63

\* impl From<usize> for SignalNo: truncate to u8, unknown values are ERR
SignalNoFrom(num) ==
    LET num_u8 == num % 256
    IN IF num_u8 \in SignalNoValues THEN num_u8 ELSE 0

\* SignalAction::default()
SignalActionDefault == [handler |-> 0, mask |-> 0]

(***************************************************************************)
(* signal-impl crate: SignalSet (a usize bit set, modelled as the set of   *)
(* its one-bits) and SignalImpl                                            *)
(***************************************************************************)
UsizeBits == 64

SetMin(S) == CHOOSE x \in S : \A y \in S : x <= y
SetMax(S) == CHOOSE x \in S : \A y \in S : x >= y

AddBit(set, bit) == IF bit < UsizeBits THEN set \cup {bit} ELSE set
RemoveBit(set, bit) == IF bit < UsizeBits THEN set \ {bit} ELSE set
ContainBit(set, bit) == bit < UsizeBits /\ bit \in set

\* a faulty find_first_one that scans from the most significant bit
FindHighestOne(set, mask) ==
    LET deliverable == set \ mask
    IN IF deliverable = {} THEN None ELSE Some(SetMax(deliverable))

\* SignalSet::find_first_one: trailing_zeros of (self & !mask)
FindFirstOne(set, mask) ==
    LET deliverable == set \ mask
    IN IF deliverable = {} THEN None ELSE Some(SetMin(deliverable))

\* HandlingSignal
Frozen == [kind |-> "Frozen"]
UserSignal(ctx) == [kind |-> "UserSignal", ctx |-> ctx]

\* SignalResult
NoSignal == [kind |-> "NoSignal", code |-> 0]
IsHandlingSignal == [kind |-> "IsHandlingSignal", code |-> 0]
Ignored == [kind |-> "Ignored", code |-> 0]
Handled == [kind |-> "Handled", code |-> 0]
ProcessKilled(code) == [kind |-> "ProcessKilled", code |-> code]
ProcessSuspended == [kind |-> "ProcessSuspended", code |-> 0]

\* SignalImpl::new
SignalImplNew ==
    [received |-> {}, mask |-> {}, handling |-> None,
     actions |-> [i \in 0..MAX_SIG |-> None]]

\* SignalImpl::valid_index
ValidIndex(signum) ==
    IF signum = 0 \/ signum > MAX_SIG THEN None ELSE Some(signum)

\* SignalImpl::kill_code
KillCode(signum) == 0 - signum

\* SignalImpl::should_ignore_by_default
ShouldIgnoreByDefault(signum) == signum \in {SIGCHLD, SIGURG, SIGCONT}

\* SignalImpl::take_deliverable_signal: the new state and Option<SignalNo>
TakeDeliverableSignal(s) ==
    LET found == FindFirstOne(s.received, s.mask) IN
    IF found = None THEN [s |-> s, ret |-> None]
    ELSE LET bit == Unwrap(found)
             signum == SignalNoFrom(bit)
         IN [s |-> [s EXCEPT !.received = RemoveBit(@, bit)],
             ret |-> IF IsSome(ValidIndex(signum)) THEN Some(signum) ELSE None]

\* a faulty handle_frozen that consumes SIGCONT but stays frozen
HandleFrozenStays(s) ==
    IF ContainBit(s.received, SIGCONT) /\ ~ContainBit(s.mask, SIGCONT)
    THEN [s |-> [s EXCEPT !.received = RemoveBit(@, SIGCONT)], ret |-> Handled]
    ELSE [s |-> s, ret |-> ProcessSuspended]

\* SignalImpl::handle_frozen
HandleFrozen(s) ==
    IF ContainBit(s.received, SIGCONT) /\ ~ContainBit(s.mask, SIGCONT)
    THEN [s |-> [s EXCEPT !.received = RemoveBit(@, SIGCONT),
                          !.handling = None],
          ret |-> Handled]
    ELSE [s |-> s, ret |-> ProcessSuspended]

\* Signal::from_fork
SignalFromFork(s) ==
    [received |-> {}, mask |-> s.mask, handling |-> None, actions |-> s.actions]

\* Signal::clear
SignalClear(s) == SignalImplNew

\* Signal::add_signal
AddSignal(s, signal) ==
    IF IsSome(ValidIndex(signal))
    THEN [s EXCEPT !.received = AddBit(@, Unwrap(ValidIndex(signal)))]
    ELSE s

\* Signal::is_handling_signal
IsHandling(s) == IsSome(s.handling)

\* Signal::set_action: the new state and the returned bool
SetAction(s, signum, action) ==
    IF signum \in {SIGKILL, SIGSTOP} THEN [s |-> s, ret |-> FALSE]
    ELSE IF ValidIndex(signum) = None THEN [s |-> s, ret |-> FALSE]
    ELSE [s |-> [s EXCEPT !.actions[signum] = Some(action)], ret |-> TRUE]

\* Signal::get_action_ref
GetActionRef(s, signum) ==
    IF signum \in {SIGKILL, SIGSTOP} THEN None
    ELSE IF ValidIndex(signum) = None THEN None
    ELSE IF IsSome(s.actions[signum]) THEN s.actions[signum]
    ELSE Some(SignalActionDefault)

\* Signal::update_mask: the new state and the old mask
UpdateMask(s, mask) == [s |-> [s EXCEPT !.mask = mask], ret |-> s.mask]

\* a faulty delivery that snapshots the context after redirecting it
DeliverSignalLateSnapshot(s, ctx, signum) ==
    IF signum = SIGKILL
    THEN [s |-> s, ctx |-> ctx, ret |-> ProcessKilled(KillCode(signum))]
    ELSE IF signum = SIGSTOP
    THEN [s |-> [s EXCEPT !.handling = Some(Frozen)], ctx |-> ctx,
          ret |-> ProcessSuspended]
    ELSE LET action == IF IsSome(s.actions[signum])
                       THEN Unwrap(s.actions[signum])
                       ELSE SignalActionDefault
             redirected == [ctx EXCEPT !.pc = action.handler, !.a0 = signum]
         IN IF action.handler # 0
            THEN [s |-> [s EXCEPT !.handling = Some(UserSignal(redirected))],
                  ctx |-> redirected, ret |-> Handled]
            ELSE IF ShouldIgnoreByDefault(signum)
            THEN [s |-> s, ctx |-> ctx, ret |-> Ignored]
            ELSE [s |-> s, ctx |-> ctx,
                  ret |-> ProcessKilled(KillCode(signum))]

\* the tail of handle_signals: dispatch on the signal taken
DeliverSignal(s, ctx, signum) ==
    IF signum = SIGKILL
    THEN [s |-> s, ctx |-> ctx, ret |-> ProcessKilled(KillCode(signum))]
    ELSE IF signum = SIGSTOP
    THEN [s |-> [s EXCEPT !.handling = Some(Frozen)], ctx |-> ctx,
          ret |-> ProcessSuspended]
    ELSE LET action == IF IsSome(s.actions[signum])
                       THEN Unwrap(s.actions[signum])
                       ELSE SignalActionDefault
         IN IF action.handler # 0
            THEN [s |-> [s EXCEPT !.handling = Some(UserSignal(ctx))],
                  ctx |-> [ctx EXCEPT !.pc = action.handler, !.a0 = signum],
                  ret |-> Handled]
            ELSE IF ShouldIgnoreByDefault(signum)
            THEN [s |-> s, ctx |-> ctx, ret |-> Ignored]
            ELSE [s |-> s, ctx |-> ctx,
                  ret |-> ProcessKilled(KillCode(signum))]

\* a faulty handle_signals that delivers to a handler while one is running
HandleSignalsNests(s, ctx) ==
    IF ContainBit(s.received, SIGKILL) /\ ~ContainBit(s.mask, SIGKILL)
    THEN [s |-> [s EXCEPT !.received = RemoveBit(@, SIGKILL)], ctx |-> ctx,
          ret |-> ProcessKilled(KillCode(SIGKILL))]
    ELSE IF s.handling = Some(Frozen)
    THEN LET r == HandleFrozen(s) IN [s |-> r.s, ctx |-> ctx, ret |-> r.ret]
    ELSE LET t == TakeDeliverableSignal(s) IN
         IF t.ret = None
         THEN [s |-> t.s, ctx |-> ctx,
               ret |-> IF IsSome(s.handling) THEN IsHandlingSignal ELSE NoSignal]
         ELSE DeliverSignal(t.s, ctx, Unwrap(t.ret))

\* a faulty handle_signals that looks at the handling state before SIGKILL
HandleSignalsKillLast(s, ctx) ==
    IF s.handling = Some(Frozen)
    THEN LET r == HandleFrozen(s) IN [s |-> r.s, ctx |-> ctx, ret |-> r.ret]
    ELSE IF IsSome(s.handling)
    THEN [s |-> s, ctx |-> ctx, ret |-> IsHandlingSignal]
    ELSE IF ContainBit(s.received, SIGKILL) /\ ~ContainBit(s.mask, SIGKILL)
    THEN [s |-> [s EXCEPT !.received = RemoveBit(@, SIGKILL)], ctx |-> ctx,
          ret |-> ProcessKilled(KillCode(SIGKILL))]
    ELSE LET t == TakeDeliverableSignal(s) IN
         IF t.ret = None THEN [s |-> t.s, ctx |-> ctx, ret |-> NoSignal]
         ELSE DeliverSignal(t.s, ctx, Unwrap(t.ret))

\* Signal::handle_signals: the new state, the context as left, the verdict
HandleSignals(s, ctx) ==
    IF ContainBit(s.received, SIGKILL) /\ ~ContainBit(s.mask, SIGKILL)
    THEN [s |-> [s EXCEPT !.received = RemoveBit(@, SIGKILL)], ctx |-> ctx,
          ret |-> ProcessKilled(KillCode(SIGKILL))]
    ELSE IF s.handling = Some(Frozen)
    THEN LET r == HandleFrozen(s) IN [s |-> r.s, ctx |-> ctx, ret |-> r.ret]
    ELSE IF IsSome(s.handling)
    THEN [s |-> s, ctx |-> ctx, ret |-> IsHandlingSignal]
    ELSE LET t == TakeDeliverableSignal(s) IN
         IF t.ret = None THEN [s |-> t.s, ctx |-> ctx, ret |-> NoSignal]
         ELSE DeliverSignal(t.s, ctx, Unwrap(t.ret))

\* Signal::sig_return: the new state, the context as left, the returned bool
SigReturn(s, ctx) ==
    IF s.handling = None THEN [s |-> s, ctx |-> ctx, ret |-> FALSE]
    ELSE IF s.handling = Some(Frozen) THEN [s |-> s, ctx |-> ctx, ret |-> FALSE]
    ELSE [s |-> [s EXCEPT !.handling = None],
          ctx |-> Unwrap(s.handling).ctx, ret |-> TRUE]

(***************************************************************************)
(* Collections.  A BTreeMap is a function on its key set, a Vec or a       *)
(* VecDeque is a sequence; element i of a Vec is position i + 1.           *)
(***************************************************************************)
Put(f, key, v) == [x \in (DOMAIN f) \cup {key} |-> IF x = key THEN v ELSE f[x]]
Del(f, key) == [x \in (DOMAIN f) \ {key} |-> f[x]]
Get(v, i) == IF i >= 0 /\ i < Len(v) THEN Some(v[i + 1]) ELSE None
Range(s) == {s[i] : i \in DOMAIN s}
FirstPos(s, x) ==
    CHOOSE i \in DOMAIN s : s[i] = x /\ \A j \in 1..(i - 1) : s[j] # x
RemoveAt(s, i) == SubSeq(s, 1, i - 1) \o SubSeq(s, i + 1, Len(s))

(***************************************************************************)
(* task-manage crate: ProcThreadRel                                        *)
(***************************************************************************)
\* ProcThreadRel::new
ProcThreadRelNew(parent) ==
    [parent |-> parent, children |-> <<>>, dead_children |-> <<>>,
     threads |-> <<>>, dead_threads |-> <<>>]

\* a faulty del_child that forgets the exit code of the child
RelDelChildForgets(rel, child_pid, exit_code) ==
    IF child_pid \in Range(rel.children)
    THEN [rel EXCEPT !.children = RemoveAt(@, FirstPos(@, child_pid))]
    ELSE rel

\* ProcThreadRel::del_child
RelDelChild(rel, child_pid, exit_code) ==
    IF child_pid \in Range(rel.children)
    THEN [rel EXCEPT !.children = RemoveAt(@, FirstPos(@, child_pid)),
                     !.dead_children = Append(@, <<child_pid, exit_code>>)]
    ELSE rel

\* ProcThreadRel::del_thread
RelDelThread(rel, tid, exit_code) ==
    IF tid \in Range(rel.threads)
    THEN [rel EXCEPT !.threads = RemoveAt(@, FirstPos(@, tid)),
                     !.dead_threads = Append(@, <<tid, exit_code>>)]
    ELSE rel

\* a faulty wait_any_child that asks for a retry while a child is alive
RelWaitAnyChildLiveFirst(rel) ==
    IF rel.children = <<>> /\ rel.dead_children = <<>>
    THEN [rel |-> rel, ret |-> None]
    ELSE IF rel.children = <<>>
    THEN [rel |-> [rel EXCEPT !.dead_children = Tail(@)],
          ret |-> Some(Head(rel.dead_children))]
    ELSE [rel |-> rel, ret |-> Some(<<UsizeMax - 1, -1>>)]

\* ProcThreadRel::wait_any_child: the new relation and Option<(pid, code)>
RelWaitAnyChild(rel) ==
    IF rel.children = <<>> /\ rel.dead_children = <<>>
    THEN [rel |-> rel, ret |-> None]
    ELSE IF rel.dead_children # <<>>
    THEN [rel |-> [rel EXCEPT !.dead_children = Tail(@)],
          ret |-> Some(Head(rel.dead_children))]
    ELSE [rel |-> rel, ret |-> Some(<<UsizeMax - 1, -1>>)]

\* ProcThreadRel::wait_child
RelWaitChild(rel, child_pid) ==
    LET dead == [i \in DOMAIN rel.dead_children |-> rel.dead_children[i][1]] IN
    IF child_pid \in Range(dead)
    THEN LET pos == FirstPos(dead, child_pid) IN
         [rel |-> [rel EXCEPT !.dead_children = RemoveAt(@, pos)],
          ret |-> Some(rel.dead_children[pos])]
    ELSE IF child_pid \in Range(rel.children)
    THEN [rel |-> rel, ret |-> Some(<<UsizeMax - 1, -1>>)]
    ELSE [rel |-> rel, ret |-> None]

\* ProcThreadRel::wait_thread: the new relation and Option<isize>
RelWaitThread(rel, thread_tid) ==
    LET dead == [i \in DOMAIN rel.dead_threads |-> rel.dead_threads[i][1]] IN
    IF thread_tid \in Range(dead)
    THEN LET pos == FirstPos(dead, thread_tid) IN
         [rel |-> [rel EXCEPT !.dead_threads = RemoveAt(@, pos)],
          ret |-> Some(rel.dead_threads[pos][2])]
    ELSE IF thread_tid \in Range(rel.threads)
    THEN [rel |-> rel, ret |-> Some(-2)]
    ELSE [rel |-> rel, ret |-> None]

(***************************************************************************)
(* task-manage crate: PThreadManager, with ch8's ThreadManager (a store    *)
(* and a FIFO ready queue) and ProcManager (a store) plugged in.  The      *)
(* record also carries the thread-id counter, whether the kernel still     *)
(* runs, and the list of threads re-queued by a wake-up in the current     *)
(* iteration of the dispatch loop (woken, kept for the properties).  It    *)
(* carries as well the process-id counter (next_pid) and the exit code the *)
(* last waitpid stored through its exit_code_ptr (written).                *)
(***************************************************************************)
PThreadManagerNew ==
    [store |-> <<>>, ready |-> <<>>, procs |-> <<>>, relations |-> <<>>,
     tid2pid |-> <<>>, current |-> None, next_tid |-> 0, next_pid |-> 0,
     next_root |-> 0,
     halted |-> "running", woken |-> <<>>, written |-> None]

\* PThreadManager::add_proc
AddProc(k, id, proc, parent) ==
    LET r1 == IF parent \in DOMAIN k.relations THEN k.relations
              ELSE Put(k.relations, parent, ProcThreadRelNew(parent))
        r2 == [r1 EXCEPT ![parent].children = Append(@, id)]
        r3 == IF id \in DOMAIN r2 THEN r2
              ELSE Put(r2, id, ProcThreadRelNew(parent))
    IN [k EXCEPT !.procs = Put(@, id, proc), !.relations = r3]

\* PThreadManager::add
AddThread(k, id, task, pid) ==
    LET r1 == IF pid \in DOMAIN k.relations THEN k.relations
              ELSE Put(k.relations, pid, ProcThreadRelNew(0))
    IN [k EXCEPT !.store = Put(@, id, task),
                 !.ready = Append(@, id),
                 !.tid2pid = Put(@, id, pid),
                 !.relations = [r1 EXCEPT ![pid].threads = Append(@, id)]]

\* a find_next that fetches the id enqueued last instead of the one enqueued
\* first
RECURSIVE FindNextNewest(_)
FindNextNewest(k) ==
    IF k.ready = <<>>
    THEN [k |-> [k EXCEPT !.current = None], ret |-> None]
    ELSE LET id == k.ready[Len(k.ready)]
             k1 == [k EXCEPT !.ready = SubSeq(@, 1, Len(@) - 1)]
         IN IF id \in DOMAIN k1.store
            THEN [k |-> [k1 EXCEPT !.current = Some(id)], ret |-> Some(id)]
            ELSE FindNextNewest(k1)

\* PThreadManager::find_next: fetch ids until one is in the store
RECURSIVE FindNext(_)
FindNext(k) ==
    IF k.ready = <<>>
    THEN [k |-> [k EXCEPT !.current = None], ret |-> None]
    ELSE LET id == Head(k.ready)
             k1 == [k EXCEPT !.ready = Tail(@)]
         IN IF id \in DOMAIN k1.store
            THEN [k |-> [k1 EXCEPT !.current = Some(id)], ret |-> Some(id)]
            ELSE FindNext(k1)

\* a make_current_suspend that takes the current thread off the processor
\* without handing it back to the scheduler
MakeCurrentSuspendNoRequeue(k) == [k EXCEPT !.current = None]

\* PThreadManager::make_current_suspend
MakeCurrentSuspend(k) ==
    IF IsSome(k.current)
    THEN [k EXCEPT !.ready = Append(@, Unwrap(k.current)), !.current = None]
    ELSE k

\* PThreadManager::make_current_blocked
MakeCurrentBlocked(k) == [k EXCEPT !.current = None]

\* PThreadManager::del_proc
DelProc(k, id, exit_code) ==
    LET known == id \in DOMAIN k.relations
        thread_ids == IF known THEN k.relations[id].threads ELSE <<>>
        t2p == [t \in (DOMAIN k.tid2pid) \ Range(thread_ids) |-> k.tid2pid[t]]
        rels == Del(k.relations, id)
    IN [k EXCEPT
          !.procs = Del(@, id),
          !.tid2pid = t2p,
          !.relations =
              IF known /\ k.relations[id].parent \in DOMAIN rels
              THEN [rels EXCEPT ![k.relations[id].parent] =
                                   RelDelChild(@, id, exit_code)]
              ELSE rels]

\* PThreadManager::make_current_exited; the two expect() calls panic
MakeCurrentExited(k, exit_code) ==
    IF k.current = None THEN k
    ELSE LET exiting_tid == Unwrap(k.current)
             k1 == [k EXCEPT !.current = None]
         IN IF exiting_tid \notin DOMAIN k1.tid2pid
            THEN [k1 EXCEPT !.halted = "panic"]
            ELSE LET pid == k1.tid2pid[exiting_tid]
                     k2 == [k1 EXCEPT !.store = Del(@, exiting_tid)]
                 IN IF pid \notin DOMAIN k2.relations
                    THEN [k2 EXCEPT !.halted = "panic"]
                    ELSE LET k3 == [k2 EXCEPT !.relations[pid] =
                                        RelDelThread(@, exiting_tid, exit_code)]
                         IN IF Len(k3.relations[pid].threads) = 0
                            THEN DelProc(k3, pid, exit_code)
                            ELSE k3

\* PThreadManager::wait: child_pid is a usize, usize::MAX asks for any child
ManagerWait(k, child_pid) ==
    IF k.current = None \/ Unwrap(k.current) \notin DOMAIN k.tid2pid
    THEN [k |-> k, ret |-> None]
    ELSE LET pid == k.tid2pid[Unwrap(k.current)] IN
         IF pid \notin DOMAIN k.relations THEN [k |-> k, ret |-> None]
         ELSE LET r == IF child_pid = UsizeMax
                       THEN RelWaitAnyChild(k.relations[pid])
                       ELSE RelWaitChild(k.relations[pid], child_pid)
              IN [k |-> [k EXCEPT !.relations[pid] = r.rel], ret |-> r.ret]

\* PThreadManager::waittid: the new state and Option<isize>
ManagerWaittid(k, thread_tid) ==
    IF k.current = None \/ Unwrap(k.current) \notin DOMAIN k.tid2pid
    THEN [k |-> k, ret |-> None]
    ELSE LET pid == k.tid2pid[Unwrap(k.current)] IN
         IF pid \notin DOMAIN k.relations THEN [k |-> k, ret |-> None]
         ELSE LET r == RelWaitThread(k.relations[pid], thread_tid) IN
              [k |-> [k EXCEPT !.relations[pid] = r.rel], ret |-> r.ret]

\* PThreadManager::get_current_proc, as the pid found
GetCurrentProc(k) ==
    IF k.current = None \/ Unwrap(k.current) \notin DOMAIN k.tid2pid
    THEN None
    ELSE IF k.tid2pid[Unwrap(k.current)] \in DOMAIN k.procs
    THEN Some(k.tid2pid[Unwrap(k.current)])
    ELSE None

(***************************************************************************)
(* ch8: processes and threads.  A Process keeps its sync objects, the      *)
(* bookkeeping maps, its signal state and its address space; the file      *)
(* table is left out.  An address space is its root page (next_root of the *)
(* manager is the next page the allocator hands out for a root) and the    *)
(* stack slots mapped in it: slot s is the USER_STACK_PAGES pages below    *)
(* TOP_OF_USER_STACK_VPN - USER_STACK_PAGES * s, so the ranges of two      *)
(* slots share no page.  A Thread keeps (tid, pid, context, satp).         *)
(* Registers and syscall results are written as the signed reading of the  *)
(* machine word (`ret as usize` and `a(0) as isize` reinterpret the same   *)
(* bits).                                                                  *)
(***************************************************************************)
BLOCKED_RETURN == IsizeMin

\* AddressSpace::new and load_user_space_from_elf: no stack is mapped yet
AddressSpaceNew(root) == [root |-> root, stacks |-> {}]

\* map_thread_stack: AddressSpace::map of the range of the slot, where
\* MapExternDecorator::arrive asserts that the PTE is not valid yet
MapThreadStack(space, slot) ==
    [space |-> [space EXCEPT !.stacks = @ \cup {slot}],
     panic |-> slot \in space.stacks]

\* AddressSpace::cloneself: every area of the space is mapped in the new one
CloneSelf(space, root) == [root |-> root, stacks |-> space.stacks]

\* Process::satp: mode 8 (Sv39) in the top four bits over the root page
ProcessSatp(proc) == [mode |-> 8, ppn |-> proc.space.root]

\* Process::from_elf: the process and its main thread
ProcessFromElf(pid, main_tid, entry, root) ==
    [proc |-> [pid |-> pid,
               space |-> MapThreadStack(AddressSpaceNew(root), 0).space,
               signal |-> SignalImplNew,
               thread_stacks |-> Put(<<>>, main_tid, 0),
               waittid_waiters |-> <<>>,
               condvar_wait_mutex |-> <<>>,
               semaphores |-> <<>>, mutexes |-> <<>>, condvars |-> <<>>],
     thread |-> [tid |-> main_tid, pid |-> pid,
                 context |-> LocalContextUser(entry),
                 satp |-> [mode |-> 8, ppn |-> root]]]

\* alloc_pid_nonzero on the ProcId counter n: the pid and the new counter
AllocPidNonzero(n) ==
    IF n = 0 THEN [pid |-> 1, next |-> 2] ELSE [pid |-> n, next |-> n + 1]

\* Process::fork: the child process, without threads or sync objects
ProcessFork(proc, pid, root) ==
    [pid |-> pid,
     space |-> CloneSelf(proc.space, root),
     signal |-> SignalFromFork(proc.signal),
     thread_stacks |-> <<>>,
     waittid_waiters |-> <<>>,
     condvar_wait_mutex |-> <<>>,
     semaphores |-> <<>>, mutexes |-> <<>>, condvars |-> <<>>]

\* the slot Process::alloc_thread_stack picks: the lowest no thread uses
FreeStackSlot(proc) ==
    LET used == {proc.thread_stacks[t] : t \in DOMAIN proc.thread_stacks}
    IN CHOOSE s \in 0..Cardinality(used) :
          s \notin used /\ \A r \in 0..(s - 1) : r \in used

\* Process::alloc_thread_stack: the process with the stack mapped, and
\* whether map_thread_stack panicked
AllocThreadStack(proc, tid) ==
    LET m == MapThreadStack(proc.space, FreeStackSlot(proc))
    IN [proc |-> [proc EXCEPT !.space = m.space,
                              !.thread_stacks = Put(@, tid, FreeStackSlot(proc))],
        panic |-> m.panic]

\* Process::exec: the process in its new address space, with the caller as
\* its only thread on slot 0, and the ForeignContext of the new image
ProcessExec(proc, current_tid, entry, root) ==
    [proc |-> [proc EXCEPT
                 !.space = MapThreadStack(AddressSpaceNew(root), 0).space,
                 !.thread_stacks = Put(<<>>, current_tid, 0),
                 !.waittid_waiters = <<>>,
                 !.condvar_wait_mutex = <<>>,
                 !.semaphores = <<>>, !.mutexes = <<>>, !.condvars = <<>>,
                 !.signal = SignalClear(@)],
     context |-> LocalContextUser(entry),
     satp |-> [mode |-> 8, ppn |-> root]]

\* Process::remove_thread_stack
RemoveThreadStack(proc, tid) ==
    [proc EXCEPT !.thread_stacks = Del(@, tid),
                 !.condvar_wait_mutex = Del(@, tid),
                 !.waittid_waiters = Del(@, tid)]

\* a faulty wake_thread_with_ret that re-queues the thread but leaves its a0
WakeThreadKeepsA0(k, tid, ret) ==
    IF tid \in DOMAIN k.store
    THEN [k EXCEPT !.ready = Append(@, tid),
                   !.woken = Append(@, [tid |-> tid, ret |-> ret])]
    ELSE k

\* wake_thread_with_ret
WakeThreadWithRet(k, tid, ret) ==
    IF tid \in DOMAIN k.store
    THEN [k EXCEPT !.store[tid].context.a0 = ret,
                   !.ready = Append(@, tid),
                   !.woken = Append(@, [tid |-> tid, ret |-> ret])]
    ELSE k

\* the loop of wake_waittid_waiters over the waiters taken
RECURSIVE WakeEach(_, _, _)
WakeEach(k, waiters, exit_code) ==
    IF waiters = <<>> THEN k
    ELSE WakeEach(WakeThreadWithRet(k, Head(waiters), exit_code),
                  Tail(waiters), exit_code)

\* wake_waittid_waiters
WakeWaittidWaiters(k, pid, exited_tid, exit_code) ==
    IF pid \in DOMAIN k.procs
       /\ exited_tid \in DOMAIN k.procs[pid].waittid_waiters
    THEN WakeEach([k EXCEPT !.procs[pid].waittid_waiters = Del(@, exited_tid)],
                  k.procs[pid].waittid_waiters[exited_tid], exit_code)
    ELSE k

\* handle_current_signals: the new state and the SignalResult
HandleCurrentSignals(k, pid, tid) ==
    IF pid \notin DOMAIN k.procs \/ tid \notin DOMAIN k.store
    THEN [k |-> k, ret |-> ProcessKilled(-3)]
    ELSE LET Result(r) ==
                 [k |-> [k EXCEPT !.procs[pid].signal = r.s,
                                  !.store[tid].context = r.ctx],
                  ret |-> r.ret]
         IN Result(HandleSignals(k.procs[pid].signal, k.store[tid].context))

\* a faulty exit_current_thread that shuts the kernel down with the thread
ExitCurrentThreadHalts(k, pid, tid, exit_code) ==
    LET k1 == WakeWaittidWaiters(k, pid, tid, exit_code)
        k2 == IF pid \in DOMAIN k1.procs
              THEN [k1 EXCEPT !.procs[pid] = RemoveThreadStack(@, tid)]
              ELSE k1
    IN [MakeCurrentExited(k2, exit_code) EXCEPT !.halted = "shutdown"]

\* exit_current_thread
ExitCurrentThread(k, pid, tid, exit_code) ==
    LET k1 == WakeWaittidWaiters(k, pid, tid, exit_code)
        k2 == IF pid \in DOMAIN k1.procs
              THEN [k1 EXCEPT !.procs[pid] = RemoveThreadStack(@, tid)]
              ELSE k1
    IN MakeCurrentExited(k2, exit_code)

(***************************************************************************)
(* ch8: the syscall handlers of SyscallContext.  Each gives the new kernel *)
(* state and the isize returned; pid and tid are CURRENT_PID, CURRENT_TID. *)
(***************************************************************************)
\* Process::exit
SysExit(k, exit_code) == [k |-> k, ret |-> exit_code]

\* Process::fork
SysFork(k, parent_pid, parent_tid) ==
    IF parent_pid \notin DOMAIN k.procs THEN [k |-> k, ret |-> -1]
    ELSE LET a == AllocPidNonzero(k.next_pid)
             parent_proc == k.procs[parent_pid]
             stack_slot == IF parent_tid \in DOMAIN parent_proc.thread_stacks
                           THEN parent_proc.thread_stacks[parent_tid] ELSE 0
             k1 == [k EXCEPT !.next_pid = a.next, !.next_root = @ + 1]
         IN IF parent_tid \notin DOMAIN k.store THEN [k |-> k1, ret |-> -1]
            ELSE LET child_tid == k.next_tid
                     child_proc ==
                         [ProcessFork(parent_proc, a.pid, k.next_root) EXCEPT
                              !.thread_stacks = Put(@, child_tid, stack_slot)]
                     child_thread ==
                         [tid |-> child_tid, pid |-> a.pid,
                          context |-> [k.store[parent_tid].context
                                           EXCEPT !.a0 = 0],
                          satp |-> ProcessSatp(child_proc)]
                     k2 == AddProc([k1 EXCEPT !.next_tid = @ + 1],
                                   a.pid, child_proc, parent_pid)
                 IN [k |-> AddThread(k2, child_tid, child_thread, a.pid),
                     ret |-> a.pid]

\* the applications of the file system: the user program keeps the name of
\* an application at the address, and the value is the entry of its ELF
Apps == (40 :> 20)

\* read_user_cstr: a null pointer translates to nothing; the name is known by
\* the address the user program keeps it at
ReadUserCstr(ptr) == IF ptr = 0 THEN None ELSE Some(ptr)

\* Process::exec (the syscall)
SysExec(k, pid, tid, path) ==
    IF ReadUserCstr(path) = None THEN [k |-> k, ret |-> -1]
    ELSE IF Unwrap(ReadUserCstr(path)) \notin DOMAIN Apps
    THEN [k |-> k, ret |-> -1]
    ELSE IF pid \notin DOMAIN k.procs THEN [k |-> k, ret |-> -1]
    ELSE LET Install(e) ==
                 LET k1 == [k EXCEPT !.procs[pid] = e.proc,
                                     !.next_root = @ + 1]
                 IN IF tid \in DOMAIN k1.store
                    THEN [k |-> [k1 EXCEPT !.store[tid].context = e.context,
                                           !.store[tid].satp = e.satp],
                          ret |-> 0]
                    ELSE [k |-> k1, ret |-> -1]
         IN Install(ProcessExec(k.procs[pid], tid,
                                Apps[Unwrap(ReadUserCstr(path))], k.next_root))

\* Process::waitpid; exit_code_ptr is null (0) or a writable user address
SysWaitpid(k, pid, exit_code_ptr) ==
    IF pid < -1 THEN [k |-> k, ret |-> -1]
    ELSE LET w == ManagerWait(k, IF pid = -1 THEN UsizeMax ELSE AsUsize(pid))
         IN IF w.ret = None THEN [k |-> w.k, ret |-> -1]
            ELSE IF Unwrap(w.ret) = <<UsizeMax - 1, -1>>
            THEN [k |-> w.k, ret |-> -2]
            ELSE [k |-> IF exit_code_ptr # 0
                        THEN [w.k EXCEPT !.written = Some(Unwrap(w.ret)[2])]
                        ELSE w.k,
                  ret |-> AsIsize(Unwrap(w.ret)[1])]

\* Scheduling::sched_yield
SysSchedYield(k) == [k |-> MakeCurrentSuspend(k), ret |-> 0]

\* Signal::kill
SysKill(k, pid, signum) ==
    IF pid < 0 THEN [k |-> k, ret |-> -1]
    ELSE IF SignalNoFrom(signum) = 0 \/ SignalNoFrom(signum) > MAX_SIG
    THEN [k |-> k, ret |-> -1]
    ELSE IF pid \notin DOMAIN k.procs THEN [k |-> k, ret |-> -1]
    ELSE [k |-> [k EXCEPT !.procs[pid].signal =
                              AddSignal(@, SignalNoFrom(signum))],
          ret |-> 0]

\* the SignalSet a register word stands for and back.  A word has WordBits
\* bits and a SignalSet UsizeBits: bit i of the word is bit i of the set,
\* but for the sign bit of the word, which is the top bit of the set.
MaskOfWord(w) ==
    {i \in 0..(WordBits - 2) : (w \div Pow2(i)) % 2 = 1}
    \cup (IF w >= Pow2(WordBits - 1) THEN {UsizeBits - 1} ELSE {})
WordOfMask(set) ==
    LET RECURSIVE Sum(_)
        Sum(i) == IF i < 0 THEN 0
                  ELSE (IF i \in set THEN Pow2(i) ELSE 0) + Sum(i - 1)
    IN Sum(WordBits - 2)
       + (IF (UsizeBits - 1) \in set THEN Pow2(WordBits - 1) ELSE 0)

\* Signal::sigprocmask
SysSigprocmask(k, mask) ==
    LET proc == GetCurrentProc(k) IN
    IF proc = None THEN [k |-> k, ret |-> -1]
    ELSE LET Install(pid, u) ==
                 [k |-> [k EXCEPT !.procs[pid].signal = u.s],
                  ret |-> AsIsize(WordOfMask(u.ret))]
         IN Install(Unwrap(proc),
                    UpdateMask(k.procs[Unwrap(proc)].signal, MaskOfWord(mask)))

\* read_user_signal_action: a null pointer gives no action; the user program
\* keeps at address p a SignalAction whose handler is p with an empty mask
ReadUserSignalAction(action) ==
    IF action = 0 THEN None ELSE Some([handler |-> action, mask |-> 0])

\* Signal::sigaction; old_action is null (0) or a writable user address
SysSigaction(k, signum, action, old_action) ==
    LET sig_no == SignalNoFrom(signum % 256)
        new_action == ReadUserSignalAction(action)
    IN IF sig_no = 0 \/ sig_no > MAX_SIG THEN [k |-> k, ret |-> -1]
       ELSE IF GetCurrentProc(k) = None THEN [k |-> k, ret |-> -1]
       ELSE LET pid == Unwrap(GetCurrentProc(k)) IN
            IF old_action # 0 /\ GetActionRef(k.procs[pid].signal, sig_no) = None
            THEN [k |-> k, ret |-> -1]
            ELSE IF new_action = None THEN [k |-> k, ret |-> 0]
            ELSE LET r == SetAction(k.procs[pid].signal, sig_no,
                                    Unwrap(new_action))
                 IN IF r.ret
                    THEN [k |-> [k EXCEPT !.procs[pid].signal = r.s], ret |-> 0]
                    ELSE [k |-> k, ret |-> -1]

\* Signal::sigreturn
SysSigreturn(k, pid, tid) ==
    IF pid \notin DOMAIN k.procs \/ tid \notin DOMAIN k.store
    THEN [k |-> k, ret |-> -1]
    ELSE LET r == SigReturn(k.procs[pid].signal, k.store[tid].context) IN
         [k |-> [k EXCEPT !.procs[pid].signal = r.s,
                          !.store[tid].context = r.ctx],
          ret |-> IF r.ret THEN 0 ELSE -1]

\* Thread::thread_create
SysThreadCreate(k, pid, entry, arg) ==
    LET tid == k.next_tid
        k1 == [k EXCEPT !.next_tid = @ + 1]
    IN IF pid \notin DOMAIN k1.procs THEN [k |-> k1, ret |-> -1]
       ELSE LET a == AllocThreadStack(k1.procs[pid], tid)
                k2 == [k1 EXCEPT !.procs[pid] = a.proc]
                thread == [tid |-> tid, pid |-> pid,
                           context |-> [LocalContextUser(entry)
                                            EXCEPT !.a0 = arg],
                           satp |-> ProcessSatp(a.proc)]
            IN IF a.panic THEN [k |-> [k EXCEPT !.halted = "panic"], ret |-> 0]
               ELSE [k |-> AddThread(k2, tid, thread, pid), ret |-> tid]

\* Thread::gettid
SysGettid(k, tid) == [k |-> k, ret |-> tid]

\* Thread::waittid
SysWaittid(k, pid, self_tid, target_tid) ==
    IF target_tid = self_tid THEN [k |-> k, ret |-> -1]
    ELSE LET w == ManagerWaittid(k, target_tid) IN
         IF w.ret = Some(-2)
         THEN IF pid \in DOMAIN w.k.procs
              THEN [k |-> [w.k EXCEPT !.procs[pid].waittid_waiters =
                              IF target_tid \in DOMAIN @
                              THEN [@ EXCEPT ![target_tid] = Append(@, self_tid)]
                              ELSE Put(@, target_tid, <<self_tid>>)],
                    ret |-> BLOCKED_RETURN]
              ELSE [k |-> w.k, ret |-> -1]
         ELSE IF IsSome(w.ret) THEN [k |-> w.k, ret |-> Unwrap(w.ret)]
         ELSE [k |-> w.k, ret |-> -1]

\* SyncMutex::semaphore_create
SysSemaphoreCreate(k, res_count) ==
    IF GetCurrentProc(k) = None THEN [k |-> k, ret |-> -1]
    ELSE LET pid == Unwrap(GetCurrentProc(k)) IN
         [k |-> [k EXCEPT !.procs[pid].semaphores =
                      Append(@, SemaphoreNew(res_count))],
          ret |-> Len(k.procs[pid].semaphores)]

\* SyncMutex::semaphore_up.  No arm of the dispatcher calls it: see
\* SyscallHandle
SysSemaphoreUp(k, sem_id, checks) ==
    IF GetCurrentProc(k) = None THEN [k |-> k, ret |-> -1]
    ELSE LET pid == Unwrap(GetCurrentProc(k)) IN
         IF Get(k.procs[pid].semaphores, sem_id) = None THEN [k |-> k, ret |-> -1]
         ELSE LET r == SemaphoreUp(Unwrap(Get(k.procs[pid].semaphores, sem_id)),
                                   checks)
                  k1 == [k EXCEPT !.procs[pid].semaphores[sem_id + 1] = r.s]
              IN IF r.panic THEN [k |-> [k EXCEPT !.halted = "panic"], ret |-> 0]
                 ELSE IF IsSome(r.ret)
                 THEN [k |-> WakeThreadWithRet(k1, Unwrap(r.ret), 0), ret |-> 0]
                 ELSE [k |-> k1, ret |-> 0]

\* SyncMutex::semaphore_down.  No arm of the dispatcher calls it either
SysSemaphoreDown(k, tid, sem_id, checks) ==
    IF GetCurrentProc(k) = None THEN [k |-> k, ret |-> -1]
    ELSE LET pid == Unwrap(GetCurrentProc(k)) IN
         IF Get(k.procs[pid].semaphores, sem_id) = None THEN [k |-> k, ret |-> -1]
         ELSE LET r == SemaphoreDown(Unwrap(Get(k.procs[pid].semaphores, sem_id)),
                                     tid, checks)
              IN IF r.panic THEN [k |-> [k EXCEPT !.halted = "panic"], ret |-> 0]
                 ELSE [k |-> [k EXCEPT !.procs[pid].semaphores[sem_id + 1] = r.s],
                       ret |-> IF r.ret THEN 0 ELSE BLOCKED_RETURN]

\* SyncMutex::mutex_create
SysMutexCreate(k, blocking) ==
    IF GetCurrentProc(k) = None THEN [k |-> k, ret |-> -1]
    ELSE LET pid == Unwrap(GetCurrentProc(k)) IN
         [k |-> [k EXCEPT !.procs[pid].mutexes =
                      Append(@, IF blocking THEN Some(MutexBlockingNew)
                                            ELSE None)],
          ret |-> Len(k.procs[pid].mutexes)]

\* proc.mutexes.get(mutex_id).and_then(|m| m.as_ref())
GetMutex(proc, mutex_id) ==
    IF IsSome(Get(proc.mutexes, mutex_id))
    THEN Unwrap(Get(proc.mutexes, mutex_id))
    ELSE None

\* SyncMutex::mutex_lock
SysMutexLock(k, tid, mutex_id) ==
    IF GetCurrentProc(k) = None THEN [k |-> k, ret |-> -1]
    ELSE LET pid == Unwrap(GetCurrentProc(k)) IN
         IF GetMutex(k.procs[pid], mutex_id) = None THEN [k |-> k, ret |-> -1]
         ELSE LET r == MutexLock(Unwrap(GetMutex(k.procs[pid], mutex_id)), tid)
              IN [k |-> [k EXCEPT !.procs[pid].mutexes[mutex_id + 1] = Some(r.m)],
                  ret |-> IF r.ret THEN 0 ELSE BLOCKED_RETURN]

\* SyncMutex::mutex_unlock; a panic of Mutex::unlock stops the kernel
SysMutexUnlock(k, mutex_id) ==
    IF GetCurrentProc(k) = None THEN [k |-> k, ret |-> -1]
    ELSE LET pid == Unwrap(GetCurrentProc(k)) IN
         IF GetMutex(k.procs[pid], mutex_id) = None THEN [k |-> k, ret |-> -1]
         ELSE LET r == MutexUnlock(Unwrap(GetMutex(k.procs[pid], mutex_id)))
                  k1 == [k EXCEPT !.procs[pid].mutexes[mutex_id + 1] = Some(r.m)]
              IN IF r.panic THEN [k |-> [k EXCEPT !.halted = "panic"], ret |-> 0]
                 ELSE IF IsSome(r.ret)
                 THEN [k |-> WakeThreadWithRet(k1, Unwrap(r.ret), 0), ret |-> 0]
                 ELSE [k |-> k1, ret |-> 0]

\* SyncMutex::condvar_create
SysCondvarCreate(k) ==
    IF GetCurrentProc(k) = None THEN [k |-> k, ret |-> -1]
    ELSE LET pid == Unwrap(GetCurrentProc(k)) IN
         [k |-> [k EXCEPT !.procs[pid].condvars = Append(@, CondvarNew)],
          ret |-> Len(k.procs[pid].condvars)]

\* a faulty condvar_signal that wakes the waiter without taking the mutex
\* on its behalf
SysCondvarSignalNoRelock(k, condvar_id) ==
    IF GetCurrentProc(k) = None THEN [k |-> k, ret |-> -1]
    ELSE LET pid == Unwrap(GetCurrentProc(k)) IN
         IF Get(k.procs[pid].condvars, condvar_id) = None
         THEN [k |-> k, ret |-> -1]
         ELSE LET s == CondvarSignal(k.procs[pid].condvars[condvar_id + 1])
                  k1 == [k EXCEPT !.procs[pid].condvars[condvar_id + 1] = s.q]
              IN IF s.ret = None THEN [k |-> k1, ret |-> 0]
                 ELSE [k |-> WakeThreadWithRet(
                                [k1 EXCEPT !.procs[pid].condvar_wait_mutex =
                                               Del(@, Unwrap(s.ret))],
                                Unwrap(s.ret), 0),
                       ret |-> 0]

\* SyncMutex::condvar_signal
SysCondvarSignal(k, condvar_id) ==
    IF GetCurrentProc(k) = None THEN [k |-> k, ret |-> -1]
    ELSE LET pid == Unwrap(GetCurrentProc(k)) IN
         IF Get(k.procs[pid].condvars, condvar_id) = None
         THEN [k |-> k, ret |-> -1]
         ELSE LET s == CondvarSignal(k.procs[pid].condvars[condvar_id + 1])
                  k1 == [k EXCEPT !.procs[pid].condvars[condvar_id + 1] = s.q]
              IN IF s.ret = None THEN [k |-> k1, ret |-> 0]
                 ELSE LET tid == Unwrap(s.ret)
                          cwm == k1.procs[pid].condvar_wait_mutex
                      IN IF tid \notin DOMAIN cwm
                         THEN [k |-> WakeThreadWithRet(k1, tid, 0), ret |-> 0]
                         ELSE LET mutex_id == cwm[tid]
                                  k2 == [k1 EXCEPT
                                           !.procs[pid].condvar_wait_mutex =
                                               Del(@, tid)]
                              IN IF GetMutex(k2.procs[pid], mutex_id) = None
                                 THEN [k |-> k2, ret |-> -1]
                                 ELSE LET r == MutexLock(
                                                 Unwrap(GetMutex(k2.procs[pid],
                                                                 mutex_id)), tid)
                                          k3 == [k2 EXCEPT
                                                   !.procs[pid].mutexes[mutex_id + 1] =
                                                       Some(r.m)]
                                      IN [k |-> IF r.ret
                                                THEN WakeThreadWithRet(k3, tid, 0)
                                                ELSE k3,
                                          ret |-> 0]

\* SyncMutex::condvar_wait; a panic of Mutex::unlock stops the kernel
SysCondvarWait(k, tid, condvar_id, mutex_id) ==
    IF GetCurrentProc(k) = None THEN [k |-> k, ret |-> -1]
    ELSE LET pid == Unwrap(GetCurrentProc(k)) IN
         IF Get(k.procs[pid].condvars, condvar_id) = None
         THEN [k |-> k, ret |-> -1]
         ELSE IF GetMutex(k.procs[pid], mutex_id) = None
         THEN [k |-> k, ret |-> -1]
         ELSE LET w == CondvarWaitNoSched(
                           k.procs[pid].condvars[condvar_id + 1], tid)
                  r == MutexUnlock(Unwrap(GetMutex(k.procs[pid], mutex_id)))
                  k1 == [k EXCEPT
                           !.procs[pid].condvar_wait_mutex = Put(@, tid, mutex_id),
                           !.procs[pid].condvars[condvar_id + 1] = w.q,
                           !.procs[pid].mutexes[mutex_id + 1] = Some(r.m)]
              IN IF r.panic
                 THEN [k |-> [k1 EXCEPT !.halted = "panic"],
                       ret |-> BLOCKED_RETURN]
                 ELSE IF IsSome(r.ret)
                 THEN [k |-> WakeThreadWithRet(k1, Unwrap(r.ret), 0),
                       ret |-> BLOCKED_RETURN]
                 ELSE [k |-> k1, ret |-> BLOCKED_RETURN]

(***************************************************************************)
(* syscall crate: the syscall numbers, the user-side wrappers and the      *)
(* kernel-side dispatcher.  Every handler group is registered by rust_main *)
(* before the dispatch loop starts.                                        *)
(***************************************************************************)
SEMOP == 65
EXIT == 93
SCHED_YIELD == 124
KILL == 129
SIGACTION == 134
RT_SIGRETURN == 139
GETTID == 178
MUTEX_CREATE == 400
MUTEX_LOCK == 401
MUTEX_UNLOCK == 402
CONDVAR_CREATE == 403
CONDVAR_SIGNAL == 404
CONDVAR_WAIT == 405
THREAD_CREATE == 406
WAITTID == 407
FORK == 220
WAIT4 == 260
EXIT_GROUP == 94
EXECVE == 221
SIGPROCMASK == 135

\* user.rs: the syscall number each wrapper passes in a7; its arguments go
\* to a0 and a1 unchanged
SyscallIdOf(call) ==
    CASE call \in {"semaphore_create", "semaphore_up", "semaphore_down"} -> SEMOP
      [] call = "exit" -> EXIT
      [] call = "sched_yield" -> SCHED_YIELD
      [] call = "kill" -> KILL
      [] call = "sigaction" -> SIGACTION
      [] call = "sigreturn" -> RT_SIGRETURN
      [] call = "gettid" -> GETTID
      [] call = "mutex_create" -> MUTEX_CREATE
      [] call = "mutex_lock" -> MUTEX_LOCK
      [] call = "mutex_unlock" -> MUTEX_UNLOCK
      [] call = "condvar_create" -> CONDVAR_CREATE
      [] call = "condvar_signal" -> CONDVAR_SIGNAL
      [] call = "condvar_wait" -> CONDVAR_WAIT
      [] call = "thread_create" -> THREAD_CREATE
      [] call = "waittid" -> WAITTID
      [] call = "fork" -> FORK
      [] call = "waitpid" -> WAIT4
      [] call = "sigprocmask" -> SIGPROCMASK
      [] call = "exit_group" -> EXIT_GROUP
      [] call = "exec" -> EXECVE

\* kernel.rs handle(): Done(ret) or Unsupported, and the new kernel state
SyscallHandle(k, pid, tid, id, args) ==
    LET Done(r) == [k |-> r.k, done |-> TRUE, ret |-> r.ret] IN
    CASE id = EXIT -> Done(SysExit(k, args[1]))
      [] id = SCHED_YIELD -> Done(SysSchedYield(k))
      [] id = FORK -> Done(SysFork(k, pid, tid))
      [] id = EXECVE -> Done(SysExec(k, pid, tid, args[1]))
      [] id = WAIT4 -> Done(SysWaitpid(k, args[1], args[2]))
      [] id = KILL -> Done(SysKill(k, args[1], args[2]))
      [] id = SIGACTION -> Done(SysSigaction(k, args[1], args[2], args[3]))
      [] id = SIGPROCMASK -> Done(SysSigprocmask(k, args[1]))
      [] id = RT_SIGRETURN -> Done(SysSigreturn(k, pid, tid))
      [] id = THREAD_CREATE -> Done(SysThreadCreate(k, pid, args[1], args[2]))
      [] id = GETTID -> Done(SysGettid(k, tid))
      [] id = WAITTID -> Done(SysWaittid(k, pid, tid, args[1]))
      [] id = SEMOP -> Done(SysSemaphoreCreate(k, args[1]))
      [] id = MUTEX_CREATE -> Done(SysMutexCreate(k, args[1] # 0))
      [] id = MUTEX_LOCK -> Done(SysMutexLock(k, tid, args[1]))
      [] id = MUTEX_UNLOCK -> Done(SysMutexUnlock(k, args[1]))
      [] id = CONDVAR_CREATE -> Done(SysCondvarCreate(k))
      [] id = CONDVAR_SIGNAL -> Done(SysCondvarSignal(k, args[1]))
      [] id = CONDVAR_WAIT -> Done(SysCondvarWait(k, tid, args[1], args[2]))
      [] OTHER -> [k |-> k, done |-> FALSE, ret |-> 0]

(***************************************************************************)
(* ch8: one iteration of the dispatch loop of rust_main.  A trap is what   *)
(* the user code did with its time slice: the cause, the registers it left *)
(* (ctx) and, for an ecall, the wrapper it went through.                   *)
(***************************************************************************)
Ecall(ctx, call, args) ==
    [kind |-> "ecall", call |-> call, id |-> SyscallIdOf(call), args |-> args,
     ctx |-> [ctx EXCEPT !.a0 = args[1], !.a1 = args[2]]]
Timer(ctx) ==
    [kind |-> "timer", call |-> "", id |-> 0, args |-> <<0, 0>>, ctx |-> ctx]
Fault(ctx) ==
    [kind |-> "fault", call |-> "", id |-> 0, args |-> <<0, 0>>, ctx |-> ctx]

\* what is remembered of an iteration
TrapInfo(tid, pid, trap, done, ret, sigres) ==
    [tid |-> tid, pid |-> pid, kind |-> trap.kind, call |-> trap.call,
     id |-> trap.id, args |-> trap.args, done |-> done, ret |-> ret,
     sig |-> sigres]
NoTrap ==
    [tid |-> -1, pid |-> -1, kind |-> "none", call |-> "", id |-> 0,
     args |-> <<0, 0>>, done |-> TRUE, ret |-> 0, sig |-> NoSignal]

\* the UserEnvCall arm: move_next, the syscall, then the signals of the
\* caller, then the scheduling decision
DispatchEcall(k1, pid, tid, trap) ==
    LET Decide(h, s, exit0, block0, suspend0) ==
            LET killed == exit0 = None /\ s.ret.kind = "ProcessKilled"
                next_exit == IF killed THEN Some(s.ret.code) ELSE exit0
                next_block == block0 /\ ~killed
                next_suspend == ~killed /\
                                (suspend0 \/ (exit0 = None
                                              /\ s.ret.kind = "ProcessSuspended"
                                              /\ ~block0))
            IN [k |-> IF h.k.halted = "panic" THEN h.k
                      ELSE IF IsSome(next_exit)
                      THEN ExitCurrentThread(s.k, pid, tid, Unwrap(next_exit))
                      ELSE IF next_block THEN MakeCurrentBlocked(s.k)
                      ELSE IF next_suspend THEN MakeCurrentSuspend(s.k)
                      ELSE s.k,
                info |-> TrapInfo(tid, pid, trap, h.done, h.ret, s.ret)]
        Signals(h, exit0, block0, suspend0) ==
            Decide(h,
                   IF exit0 = None
                   THEN HandleCurrentSignals(
                            IF suspend0 /\ tid \in DOMAIN h.k.store
                            THEN [h.k EXCEPT !.store[tid].context.a0 = h.ret]
                            ELSE h.k, pid, tid)
                   ELSE [k |-> h.k, ret |-> NoSignal],
                   exit0, block0, suspend0)
        AfterSyscall(h) ==
            Signals(h,
                    IF ~h.done THEN Some(-2)
                    ELSE IF trap.id = EXIT THEN Some(h.ret) ELSE None,
                    h.done /\ trap.id # EXIT /\ h.ret = BLOCKED_RETURN,
                    h.done /\ trap.id # EXIT /\ h.ret # BLOCKED_RETURN)
    IN AfterSyscall(SyscallHandle([k1 EXCEPT !.store[tid].context.pc = @ + 4],
                                  pid, tid, trap.id, trap.args))

\* the SupervisorTimer arm
DispatchTimer(k1, pid, tid, trap) ==
    LET Decide(s) ==
            [k |-> IF s.ret.kind = "ProcessKilled"
                   THEN ExitCurrentThread(s.k, pid, tid, s.ret.code)
                   ELSE MakeCurrentSuspend(s.k),
             info |-> TrapInfo(tid, pid, trap, TRUE, 0, s.ret)]
    IN Decide(HandleCurrentSignals(k1, pid, tid))

\* the thread find_next would pick, if any
NextThread(k) == FindNext(k).ret

\* one iteration: find_next, run the thread until `trap`, handle the trap
Dispatch(k0, trap) ==
    LET f == FindNext([k0 EXCEPT !.woken = <<>>, !.written = None]) IN
    IF f.ret = None
    THEN [k |-> [f.k EXCEPT !.halted = "shutdown"], info |-> NoTrap]
    ELSE LET tid == Unwrap(f.ret)
             pid == f.k.store[tid].pid
         IN IF pid \notin DOMAIN f.k.procs
            THEN [k |-> ExitCurrentThread(f.k, pid, tid, -3), info |-> NoTrap]
            ELSE LET k1 == [f.k EXCEPT !.store[tid].context = trap.ctx] IN
                 IF trap.kind = "ecall" THEN DispatchEcall(k1, pid, tid, trap)
                 ELSE IF trap.kind = "timer"
                 THEN DispatchTimer(k1, pid, tid, trap)
                 ELSE [k |-> ExitCurrentThread(k1, pid, tid, -3),
                       info |-> TrapInfo(tid, pid, trap, TRUE, 0, NoSignal)]

\* rust_main up to the dispatch loop: initproc is process 0 with its main
\* thread, the first ThreadId handed out
KernelNew(entry) ==
    LET init == ProcessFromElf(0, 0, entry, 0)
        k1 == AddProc(PThreadManagerNew, 0, init.proc, 0)
    IN [AddThread(k1, 0, init.thread, 0) EXCEPT !.next_tid = 1,
                                                !.next_root = 1]

(***************************************************************************)
(* task-manage crate: ProcRel and PManager, with ch6's ProcManager (a      *)
(* store and a FIFO ready queue) plugged in.  ProcRel's del_child,         *)
(* wait_any_child and wait_child are the code of ProcThreadRel's, so       *)
(* RelDelChild, RelWaitAnyChild and RelWaitChild serve both.  The record   *)
(* also carries the process-id counter and whether the kernel still runs.  *)
(***************************************************************************)
\* ProcRel::new
ProcRelNew(parent_pid) ==
    [parent |-> parent_pid, children |-> <<>>, dead_children |-> <<>>]

\* PManager::new and ProcManager::new
PManagerNew ==
    [store |-> <<>>, ready |-> <<>>, relations |-> <<>>, current |-> None,
     next_pid |-> 0, halted |-> "running"]

\* PManager::add
PManagerAdd(m, id, task, parent) ==
    LET r1 == IF parent \in DOMAIN m.relations THEN m.relations
              ELSE Put(m.relations, parent, ProcRelNew(parent))
        r2 == [r1 EXCEPT ![parent].children = Append(@, id)]
        r3 == IF id \in DOMAIN r2 THEN r2 ELSE Put(r2, id, ProcRelNew(parent))
    IN [m EXCEPT !.store = Put(@, id, task), !.ready = Append(@, id),
                 !.relations = r3]

\* PManager::find_next: fetch ids until one is in the store
RECURSIVE PManagerFindNext(_)
PManagerFindNext(m) ==
    IF m.ready = <<>> THEN [m EXCEPT !.current = None]
    ELSE IF Head(m.ready) \in DOMAIN m.store
    THEN [m EXCEPT !.ready = Tail(@), !.current = Some(Head(m.ready))]
    ELSE PManagerFindNext([m EXCEPT !.ready = Tail(@)])

\* PManager::make_current_suspend
PManagerSuspend(m) ==
    IF IsSome(m.current)
    THEN [m EXCEPT !.ready = Append(@, Unwrap(m.current)), !.current = None]
    ELSE m

\* the loop of make_current_exited that hands the children to init
RECURSIVE ReparentEach(_, _)
ReparentEach(rels, children) ==
    IF children = <<>> THEN rels
    ELSE LET c == Head(children)
             r1 == IF c \in DOMAIN rels
                   THEN [rels EXCEPT ![c].parent = 0] ELSE rels
             r2 == IF 0 \in DOMAIN r1
                   THEN [r1 EXCEPT ![0].children = Append(@, c)] ELSE r1
         IN ReparentEach(r2, Tail(children))

\* a make_current_exited that leaves the children of the exiting process
\* with their dead parent
PManagerExitedNoReparent(m, exit_code) ==
    IF m.current = None THEN m
    ELSE LET id == Unwrap(m.current)
             r1 == IF id \in DOMAIN m.relations
                      /\ m.relations[id].parent \in DOMAIN m.relations
                   THEN [m.relations EXCEPT ![m.relations[id].parent] =
                                               RelDelChild(@, id, exit_code)]
                   ELSE m.relations
         IN [m EXCEPT !.current = None, !.store = Del(@, id), !.relations = r1]

\* PManager::make_current_exited
PManagerExited(m, exit_code) ==
    IF m.current = None THEN m
    ELSE LET id == Unwrap(m.current)
             r1 == IF id \in DOMAIN m.relations
                      /\ m.relations[id].parent \in DOMAIN m.relations
                   THEN [m.relations EXCEPT ![m.relations[id].parent] =
                                               RelDelChild(@, id, exit_code)]
                   ELSE m.relations
             r2 == IF id \in DOMAIN r1
                   THEN [ReparentEach(r1, r1[id].children)
                            EXCEPT ![id].children = <<>>]
                   ELSE r1
         IN [m EXCEPT !.current = None, !.store = Del(@, id), !.relations = r2]

\* PManager::wait: the new state and Option<(pid, code)>
PManagerWait(m, child_pid) ==
    IF m.current = None \/ Unwrap(m.current) \notin DOMAIN m.relations
    THEN [m |-> m, ret |-> None]
    ELSE LET pid == Unwrap(m.current)
             r == IF child_pid = UsizeMax
                  THEN RelWaitAnyChild(m.relations[pid])
                  ELSE RelWaitChild(m.relations[pid], child_pid)
         IN [m |-> [m EXCEPT !.relations[pid] = r.rel], ret |-> r.ret]

(***************************************************************************)
(* ch6: the process kernel.  A Process keeps (pid, context); the address   *)
(* space and the file table are left out.  One iteration of the dispatch   *)
(* loop of rust_main gives the new manager and what the iteration did:     *)
(* the caller, the call, its result, and what PManager::wait returned.     *)
(***************************************************************************)
\* rust_main up to the dispatch loop: initproc is process 0, its own parent
Ch6New(entry) ==
    PManagerAdd(PManagerNew, 0, [pid |-> 0, context |-> LocalContextUser(entry)], 0)

\* Process::fork and syscall fork
Ch6Fork(m, parent_pid) ==
    IF m.current = None \/ Unwrap(m.current) \notin DOMAIN m.store
    THEN [m |-> m, ret |-> -1, waited |-> None]
    ELSE LET a == AllocPidNonzero(m.next_pid)
             parent == m.store[Unwrap(m.current)]
             child == [pid |-> a.pid,
                       context |-> [parent.context EXCEPT !.a0 = 0]]
         IN [m |-> PManagerAdd([m EXCEPT !.next_pid = a.next],
                               a.pid, child, parent_pid),
             ret |-> a.pid, waited |-> None]

\* syscall waitpid; the result does not depend on exit_code_ptr, which is
\* null or a writable user address
Ch6Waitpid(m, pid) ==
    IF pid < -1 THEN [m |-> m, ret |-> -1, waited |-> None]
    ELSE LET w == PManagerWait(m, IF pid = -1 THEN UsizeMax ELSE AsUsize(pid))
         IN [m |-> w.m, waited |-> w.ret,
             ret |-> IF w.ret = None THEN -1
                     ELSE IF Unwrap(w.ret) = <<UsizeMax - 1, -1>> THEN -2
                     ELSE AsIsize(Unwrap(w.ret)[1])]

NoProcLog ==
    [pid |-> -1, kind |-> "none", call |-> "", args |-> <<0, 0>>, ret |-> 0,
     waited |-> None, exited |-> <<>>, reaped |-> <<>>]

\* one iteration: find_next, run the process until `trap`, handle the trap;
\* log is the record of the iterations before
Ch6Dispatch(m0, trap, log) ==
    LET Step(f) ==
            IF f.current = None
            THEN [m |-> [f EXCEPT !.halted = "shutdown"],
                  log |-> [log EXCEPT !.pid = -1, !.kind = "none", !.call = "",
                                      !.waited = None]]
            ELSE LET pid == f.store[Unwrap(f.current)].pid
                     m1 == [f EXCEPT !["store"][Unwrap(f.current)].context =
                                        [trap.ctx EXCEPT !.pc = @ + 4]]
                     Exit(m, code) ==
                         [m |-> PManagerExited(m, code),
                          log |-> [log EXCEPT
                                     !.pid = pid, !.kind = trap.kind,
                                     !.call = trap.call,
                                     !.args = trap.args, !.ret = code,
                                     !.waited = None,
                                     !.exited = Append(@, <<pid, code>>)]]
                     Done(h) ==
                         [m |-> PManagerSuspend(
                                   [h.m EXCEPT !["store"][Unwrap(f.current)]
                                                   .context.a0 = h.ret]),
                          log |-> [log EXCEPT
                                     !.pid = pid, !.kind = trap.kind,
                                     !.call = trap.call,
                                     !.args = trap.args, !.ret = h.ret,
                                     !.waited = h.waited,
                                     !.reaped =
                                        IF h.ret >= 0 /\ trap.id = WAIT4
                                        THEN Append(@, <<pid, Unwrap(h.waited)>>)
                                        ELSE @]]
                 IN IF trap.kind # "ecall" THEN Exit(f, -3)
                    ELSE IF trap.id = EXIT THEN Exit(m1, trap.args[1])
                    ELSE IF trap.id = FORK THEN Done(Ch6Fork(m1, pid))
                    ELSE IF trap.id = WAIT4
                    THEN Done(Ch6Waitpid(m1, trap.args[1]))
                    ELSE IF trap.id = SCHED_YIELD
                    THEN Done([m |-> PManagerSuspend(m1), ret |-> 0,
                               waited |-> None])
                    ELSE Exit(m1, -2)
    IN Step(PManagerFindNext(m0))

(***************************************************************************)
(* ch5: the first process kernel.  It uses the same PManager, with its own *)
(* fork, waitpid and dispatch loop.  Process ids come straight from        *)
(* ProcId::new, whose counter starts at 0; the syscall handlers of exit    *)
(* and sched_yield already change the schedule; the dispatcher advances    *)
(* the pc after the syscall; a breakpoint only advances the pc.            *)
(***************************************************************************)
\* ProcId::new on a counter that holds n: the id and the counter after it
ProcIdNew(n) == [pid |-> n, next |-> (n + 1) % Pow2(WordBits)]

\* a breakpoint exception taken in user code
Breakpoint(ctx) ==
    [kind |-> "breakpoint", call |-> "", id |-> 0, args |-> <<0, 0>>, ctx |-> ctx]

\* rust_main up to the dispatch loop: initproc is process 0, its own parent
Ch5New(entry) ==
    PManagerAdd(PManagerNew, 0, [pid |-> 0, context |-> LocalContextUser(entry)], 0)

\* syscall fork of ch5
Ch5Fork(m, parent_pid) ==
    IF m.current = None \/ Unwrap(m.current) \notin DOMAIN m.store
    THEN [m |-> m, ret |-> -1, waited |-> None]
    ELSE LET a == ProcIdNew(m.next_pid)
             parent == m.store[Unwrap(m.current)]
             child == [pid |-> a.pid,
                       context |-> [parent.context EXCEPT !.a0 = 0]]
         IN [m |-> PManagerAdd([m EXCEPT !.next_pid = a.next],
                               a.pid, child, parent_pid),
             ret |-> AsIsize(a.pid), waited |-> None]

\* syscall waitpid of ch5: a null exit_code_ptr makes it wait(-1)
Ch5Waitpid(m, pid, exit_code_ptr) ==
    LET Wait(p) ==
            LET w == PManagerWait(m, IF p = -1 THEN UsizeMax ELSE AsUsize(p))
            IN [m |-> w.m, waited |-> w.ret,
                ret |-> IF w.ret = None THEN -1
                        ELSE IF Unwrap(w.ret) = <<UsizeMax - 1, -1>> THEN -2
                        ELSE AsIsize(Unwrap(w.ret)[1])]
    IN Wait(IF exit_code_ptr = 0 THEN -1 ELSE pid)

\* ch5 exec: the process takes the address space, the context and the stack
\* of the image load_elf builds for the application named at `path`
Ch5Exec(m, path) ==
    IF ReadUserCstr(path) = None
       \/ Unwrap(ReadUserCstr(path)) \notin DOMAIN Apps
    THEN [m |-> m, ret |-> -1, waited |-> None]
    ELSE LET entry == Apps[Unwrap(ReadUserCstr(path))] IN
         IF IsSome(m.current) /\ Unwrap(m.current) \in DOMAIN m.store
         THEN [m |-> [m EXCEPT !["store"][Unwrap(m.current)].context =
                                  LocalContextUser(entry)],
               ret |-> 0, waited |-> None]
         ELSE [m |-> m, ret |-> 0, waited |-> None]

\* one iteration of the dispatch loop of ch5
Ch5Dispatch(m0, trap, log) ==
    LET Step(f) ==
            IF f.current = None
            THEN [m |-> [f EXCEPT !.halted = "shutdown"],
                  log |-> [log EXCEPT !.pid = -1, !.call = "", !.waited = None,
                                      !.kind = "none"]]
            ELSE LET cur == Unwrap(f.current)
                     pid == f.store[cur].pid
                     m1 == [f EXCEPT !["store"][cur].context = trap.ctx]
                     Exit(m, code) ==
                         [m |-> PManagerExited(m, code),
                          log |-> [log EXCEPT
                                     !.pid = pid, !.call = trap.call,
                                     !.kind = trap.kind,
                                     !.args = trap.args, !.ret = code,
                                     !.waited = None,
                                     !.exited = Append(@, <<pid, code>>)]]
                     Resume(m, ret) ==
                         IF cur \in DOMAIN m.store
                         THEN [m EXCEPT !["store"][cur].context.a0 = ret,
                                        !["store"][cur].context.pc = @ + 4]
                         ELSE m
                     Done(h) ==
                         [m |-> PManagerSuspend(Resume(h.m, h.ret)),
                          log |-> [log EXCEPT
                                     !.pid = pid, !.call = trap.call,
                                     !.kind = trap.kind,
                                     !.args = trap.args, !.ret = h.ret,
                                     !.waited = h.waited,
                                     !.reaped =
                                        IF h.ret >= 0 /\ trap.id = WAIT4
                                        THEN Append(@, <<pid, Unwrap(h.waited)>>)
                                        ELSE @]]
                 IN IF trap.kind = "breakpoint"
                    THEN [m |-> [m1 EXCEPT !["store"][cur].context.pc = @ + 4],
                          log |-> [log EXCEPT !.pid = pid, !.call = "",
                                              !.kind = trap.kind,
                                              !.args = trap.args,
                                              !.waited = None]]
                    ELSE IF trap.kind # "ecall" THEN Exit(m1, -3)
                    ELSE IF trap.id = EXIT
                    THEN Exit(m1, trap.args[1])
                    ELSE IF trap.id = FORK THEN Done(Ch5Fork(m1, pid))
                    ELSE IF trap.id = EXECVE
                    THEN Done(Ch5Exec(m1, trap.args[1]))
                    ELSE IF trap.id = WAIT4
                    THEN Done(Ch5Waitpid(m1, trap.args[1], trap.args[2]))
                    ELSE IF trap.id = SCHED_YIELD
                    THEN Done([m |-> PManagerSuspend(m1), ret |-> 0,
                               waited |-> None])
                    ELSE Exit(m1, -2)
    IN Step(PManagerFindNext(m0))

(***************************************************************************)
(* kernel-context crate, foreign module: the portal page shared by the     *)
(* kernel and every user address space.  The page holds a usize (the slot  *)
(* count), PORTAL_CODE_SIZE bytes of trampoline code, then the cache       *)
(* slots.  It is modelled as the 8-byte words at its byte offsets.  The    *)
(* kernel fills a slot through PortalCache::init; the trampoline of ch8    *)
(* (__ch8_portal_code) then runs with the address of the slot in a0.       *)
(***************************************************************************)
SizeOfUsize == 8
PORTAL_CODE_SIZE == 256

\* struct PortalCache, #[repr(C)]: its fields in declaration order
PortalCacheFields == <<"satp", "sepc", "a0", "sstatus">>

\* the byte offset of a field and size_of::<PortalCache>()
FieldOffset(f) == SizeOfUsize * (FirstPos(PortalCacheFields, f) - 1)
SizeOfPortalCache == SizeOfUsize * Len(PortalCacheFields)

\* MultislotPortal::cache_offset
CacheOffset(index) == SizeOfUsize + PORTAL_CODE_SIZE + index * SizeOfPortalCache

\* PortalCache::init: the value of each field
PortalCacheInit(satp, pc, a0, supervisor, interrupt) ==
    [satp |-> satp, sepc |-> pc, a0 |-> a0,
     sstatus |-> (IF supervisor THEN Pow2(8) ELSE 0)
                 + (IF interrupt THEN Pow2(5) ELSE 0)]

\* the page after transit_cache(index).init(..) has stored the fields
TransitCacheInit(page, index, cache) ==
    [o \in DOMAIN page |->
        IF \E i \in DOMAIN PortalCacheFields :
              o = CacheOffset(index) + FieldOffset(PortalCacheFields[i])
        THEN LET i == CHOOSE j \in DOMAIN PortalCacheFields :
                         o = CacheOffset(index) + FieldOffset(PortalCacheFields[j])
             IN cache[PortalCacheFields[i]]
        ELSE page[o]]

\* __ch8_portal_code entered with a0 = addr, a1 and the CSRs as in regs:
\* the page and the registers at its sret
PortalCode(page, addr, regs) ==
    [page |-> [page EXCEPT ![addr + 8] = regs.a1,
                           ![addr + 16] = regs.satp,
                           ![addr + 40] = regs.stvec,
                           ![addr + 48] = regs.sscratch],
     regs |-> [regs EXCEPT !.a0 = page[addr], !.satp = page[addr + 16],
                           !.sstatus = page[addr + 24],
                           !.sepc = page[addr + 32], !.sscratch = addr]]

\* the registers the trampoline is entered with: the kernel's satp, trap
\* vector and sscratch, and the a1 of the context to be run; stvec is kept
\* as the kernel's (the trampoline replaces it by its own trap entry)
KernelRegs ==
    [a0 |-> 0, a1 |-> 7, satp |-> 9, sstatus |-> 0, sepc |-> 0, stvec |-> 10,
     sscratch |-> 11]

\* MultislotPortal::init_transit on the zeroed page: the first PortalBytes
\* bytes of the page, with nothing asked of a slot yet
PortalNew(slots) ==
    [page |-> [o \in {SizeOfUsize * n : n \in 0..(PortalBytes \div SizeOfUsize - 1)}
                 |-> IF o = 0 THEN slots ELSE 0],
     step |-> "new", slot |-> 0, runs |-> 0,
     asked |-> PortalCacheInit(0, 0, 0, FALSE, FALSE), regs |-> KernelRegs]

(***************************************************************************)
(* The variables of a crate-level specification that is not running        *)
(***************************************************************************)
MutexIdle == mutex = MutexBlockingNew /\ mutexLog = <<>>
SemIdle == sem = SemaphoreNew(0) /\ semLog = <<>>
SigIdle ==
    /\ sig = SignalImplNew
    /\ sigCtx = LocalContextUser(0)
    /\ sigRes = [op |-> "new", ok |-> TRUE, ret |-> NoSignal]
ProcIdle == pman = PManagerNew /\ pmLog = NoProcLog
PortalIdle == portal = [PortalNew(0) EXCEPT !.page = <<>>, !.step = "idle"]
KernelIdle ==
    /\ kernel = PThreadManagerNew
    /\ lastTrap = NoTrap
    /\ prog = <<>>
    /\ trace = <<>>
    /\ umem = <<>>

(***************************************************************************)
(* Crate-level specification of MutexBlocking: one mutex, created by       *)
(* MutexBlocking::new, under any sequence of lock and unlock calls.  Each  *)
(* call that returns is appended to mutexLog with the state it found.      *)
(***************************************************************************)
MutexInit ==
    /\ overflowChecks = TRUE
    /\ panicked = FALSE
    /\ mutex = MutexBlockingNew
    /\ mutexLog = <<>>
    /\ SemIdle
    /\ SigIdle
    /\ KernelIdle
    /\ ProcIdle
    /\ PortalIdle

CallLock(tid) ==
    /\ ~panicked
    /\ Len(mutexLog) < MaxOps
    /\ LET r == MutexLock(mutex, tid) IN
       /\ mutex' = r.m
       /\ mutexLog' = Append(mutexLog,
              [op |-> "lock", tid |-> tid, acquired |-> r.ret, woken |-> None,
               pre |-> mutex, post |-> r.m])
    /\ UNCHANGED <<overflowChecks, panicked, semVars, sigVars, kernVars>>

CallUnlock ==
    /\ ~panicked
    /\ Len(mutexLog) < MaxOps
    /\ LET r == MutexUnlock(mutex) IN
       /\ mutex' = r.m
       /\ panicked' = r.panic
       /\ mutexLog' = IF r.panic THEN mutexLog
                      ELSE Append(mutexLog,
              [op |-> "unlock", tid |-> 0, acquired |-> FALSE, woken |-> r.ret,
               pre |-> mutex, post |-> r.m])
    /\ UNCHANGED <<overflowChecks, semVars, sigVars, kernVars>>

MutexNext ==
    \/ \E tid \in Tids : CallLock(tid)
    \/ CallUnlock

SpecMutex == MutexInit /\ [][MutexNext]_vars

\* the calls i..j of the log are all calls of `op`
AllOps(i, j, op) == \A k \in i..j : mutexLog[k].op = op

(***************************************************************************)
(* C1  Mutex FIFO.  Whenever the mutex is held with nobody waiting and the *)
(* next n calls are lock calls by t1..tn, each of them is reported         *)
(* not-acquired; if the n calls after those are unlock calls, they return  *)
(* t1..tn in exactly that order; and an unlock that follows returns none.  *)
(***************************************************************************)
MutexFifoHandoff ==
    \A i \in 1..Len(mutexLog) : \A n \in 1..Len(mutexLog) :
        ( /\ i + n - 1 <= Len(mutexLog)
          /\ mutexLog[i].pre.locked
          /\ mutexLog[i].pre.waiting = <<>>
          /\ AllOps(i, i + n - 1, "lock") )
        => /\ \A k \in 0..(n - 1) : ~mutexLog[i + k].acquired
           /\ \A j \in 1..n :
                 ( /\ i + n + j - 1 <= Len(mutexLog)
                   /\ AllOps(i + n, i + n + j - 1, "unlock") )
                 => mutexLog[i + n + j - 1].woken = Some(mutexLog[i + j - 1].tid)
           /\ ( /\ i + 2 * n <= Len(mutexLog)
                /\ AllOps(i + n, i + 2 * n, "unlock") )
              => mutexLog[i + 2 * n].woken = None

\* C1 witness: lock(1) acquired, lock(2), lock(3) queued, then three unlocks
\* returned 2, 3 and none
MutexFifoWitness ==
    /\ Len(mutexLog) = 6
    /\ mutexLog[1].op = "lock" /\ mutexLog[1].acquired
    /\ mutexLog[2].op = "lock" /\ mutexLog[2].tid = 2 /\ ~mutexLog[2].acquired
    /\ mutexLog[3].op = "lock" /\ mutexLog[3].tid = 3 /\ ~mutexLog[3].acquired
    /\ mutexLog[4].op = "unlock" /\ mutexLog[4].woken = Some(2)
    /\ mutexLog[5].op = "unlock" /\ mutexLog[5].woken = Some(3)
    /\ mutexLog[6].op = "unlock" /\ mutexLog[6].woken = None

(***************************************************************************)
(* C2  Direct handoff.  An unlock that finds a non-empty waiter queue      *)
(* returns the head waiter and leaves the locked flag set; from that       *)
(* unlock until the next unlock, no lock call returns acquired.            *)
(***************************************************************************)
MutexHandoffKeepsLocked ==
    \A i \in 1..Len(mutexLog) :
        (mutexLog[i].op = "unlock" /\ mutexLog[i].pre.waiting # <<>>)
        => /\ mutexLog[i].post.locked
           /\ mutexLog[i].woken = Some(Head(mutexLog[i].pre.waiting))
           /\ \A j \in (i + 1)..Len(mutexLog) :
                 AllOps(i + 1, j, "lock") => ~mutexLog[j].acquired

\* C2 witness: an unlock handed the mutex to a waiter and another thread's
\* lock call followed it
MutexHandoffWitness ==
    \E i \in 1..Len(mutexLog) :
        /\ mutexLog[i].op = "unlock"
        /\ mutexLog[i].pre.waiting # <<>>
        /\ i + 1 <= Len(mutexLog)
        /\ mutexLog[i + 1].op = "lock"
        /\ mutexLog[i + 1].tid # Unwrap(mutexLog[i].woken)

(***************************************************************************)
(* Crate-level specification of Semaphore: one semaphore, created by       *)
(* Semaphore::new with any res_count, under any sequence of down and up    *)
(* calls, in either build profile.                                         *)
(***************************************************************************)
SemaphoreInit ==
    /\ overflowChecks \in BOOLEAN
    /\ panicked = FALSE
    /\ \E res_count \in Usize : sem = SemaphoreNew(res_count)
    /\ semLog = <<>>
    /\ MutexIdle
    /\ SigIdle
    /\ KernelIdle
    /\ ProcIdle
    /\ PortalIdle

CallDown(tid) ==
    /\ ~panicked
    /\ Len(semLog) < MaxOps
    /\ LET r == SemaphoreDown(sem, tid, overflowChecks) IN
       /\ sem' = r.s
       /\ panicked' = r.panic
       /\ semLog' = IF r.panic THEN semLog
                    ELSE Append(semLog,
              [op |-> "down", tid |-> tid, acquired |-> r.ret, woken |-> None,
               pre |-> sem, post |-> r.s])
    /\ UNCHANGED <<overflowChecks, mutexVars, sigVars, kernVars>>

CallUp ==
    /\ ~panicked
    /\ Len(semLog) < MaxOps
    /\ LET r == SemaphoreUp(sem, overflowChecks) IN
       /\ sem' = r.s
       /\ panicked' = r.panic
       /\ semLog' = IF r.panic THEN semLog
                    ELSE Append(semLog,
              [op |-> "up", tid |-> 0, acquired |-> FALSE, woken |-> r.ret,
               pre |-> sem, post |-> r.s])
    /\ UNCHANGED <<overflowChecks, mutexVars, sigVars, kernVars>>

SemaphoreNext ==
    \/ \E tid \in Tids : CallDown(tid)
    \/ CallUp

SpecSemaphore == SemaphoreInit /\ [][SemaphoreNext]_vars

\* the threads whose down call has blocked and that no up has released yet,
\* in the order of their down calls, after the first n calls of the log
RECURSIVE SemBlocked(_)
SemBlocked(n) ==
    IF n = 0 THEN <<>>
    ELSE LET e == semLog[n]
             b == SemBlocked(n - 1)
         IN IF e.op = "down" /\ ~e.acquired THEN Append(b, e.tid)
            ELSE IF e.op = "up" /\ IsSome(e.woken) /\ b # <<>> THEN Tail(b)
            ELSE b

(***************************************************************************)
(* C5  Semaphore count and waiters.  In every state, a negative count has  *)
(* exactly -count queued waiters and a non-negative count has none; and    *)
(* every up that releases a thread releases the one blocked the longest.   *)
(***************************************************************************)
SemaphoreCountMatchesWaiters ==
    /\ sem.count < 0 => Len(sem.waiting) = 0 - sem.count
    /\ sem.count >= 0 => sem.waiting = <<>>
    /\ \A i \in 1..Len(semLog) :
          (semLog[i].op = "up" /\ IsSome(semLog[i].woken))
          => /\ SemBlocked(i - 1) # <<>>
             /\ Unwrap(semLog[i].woken) = Head(SemBlocked(i - 1))

(***************************************************************************)
(* Crate-level specification of SignalImpl: one signal state, created by   *)
(* SignalImpl::new, under any sequence of calls of the Signal trait, with  *)
(* the arguments drawn from the sets below.  Between calls the owner of    *)
(* the context may run and change it.                                      *)
(***************************************************************************)
\* signal numbers passed to add_signal and set_action: ERR, SIGHUP, SIGKILL,
\* SIGUSR1, SIGCONT, SIGSTOP and SIGRTMIN (beyond MAX_SIG)
SignalInputs == {0, 1, SIGKILL, 10, SIGCONT, SIGSTOP, 32}
\* signals for which set_action is tried
ActionSignalInputs == {0, 1, SIGKILL, 10, SIGSTOP}
\* masks passed to update_mask
MaskInputs == {{}, {SIGKILL}, {1}, 0..(UsizeBits - 1)}
\* handler addresses passed to set_action
HandlerInputs == {0, 4096}
\* the contexts a running thread may be left with
UserContexts == {[pc |-> 16, a0 |-> 5, a1 |-> 6], [pc |-> 20, a0 |-> 0, a1 |-> 7]}

SignalInit ==
    /\ overflowChecks = TRUE
    /\ panicked = FALSE
    /\ sig = SignalImplNew
    /\ sigCtx \in UserContexts
    /\ sigRes = [op |-> "new", ok |-> TRUE, ret |-> NoSignal]
    /\ MutexIdle
    /\ SemIdle
    /\ KernelIdle
    /\ ProcIdle
    /\ PortalIdle

SigOthers == <<overflowChecks, panicked, mutexVars, semVars, kernVars>>

CallAddSignal(signal) ==
    /\ sig' = AddSignal(sig, signal)
    /\ sigRes' = [op |-> "add_signal", ok |-> TRUE, ret |-> NoSignal]
    /\ UNCHANGED <<sigCtx, SigOthers>>

CallUpdateMask(mask) ==
    /\ sig' = UpdateMask(sig, mask).s
    /\ sigRes' = [op |-> "update_mask", ok |-> TRUE, ret |-> NoSignal]
    /\ UNCHANGED <<sigCtx, SigOthers>>

CallSetAction(signum, handler) ==
    /\ LET r == SetAction(sig, signum, [handler |-> handler, mask |-> 0]) IN
       /\ sig' = r.s
       /\ sigRes' = [op |-> "set_action", ok |-> r.ret, ret |-> NoSignal]
    /\ UNCHANGED <<sigCtx, SigOthers>>

CallHandleSignals ==
    /\ LET r == HandleSignals(sig, sigCtx) IN
       /\ sig' = r.s
       /\ sigCtx' = r.ctx
       /\ sigRes' = [op |-> "handle_signals", ok |-> TRUE, ret |-> r.ret]
    /\ UNCHANGED SigOthers

CallSigReturn ==
    /\ LET r == SigReturn(sig, sigCtx) IN
       /\ sig' = r.s
       /\ sigCtx' = r.ctx
       /\ sigRes' = [op |-> "sig_return", ok |-> r.ret, ret |-> NoSignal]
    /\ UNCHANGED SigOthers

\* the thread that owns the context runs in user mode
UserRuns(ctx) ==
    /\ sigCtx' = ctx
    /\ sigRes' = [op |-> "run", ok |-> TRUE, ret |-> NoSignal]
    /\ UNCHANGED <<sig, SigOthers>>

SignalNext ==
    \/ \E signal \in SignalInputs : CallAddSignal(signal)
    \/ \E mask \in MaskInputs : CallUpdateMask(mask)
    \/ \E signum \in ActionSignalInputs, handler \in HandlerInputs :
          CallSetAction(signum, handler)
    \/ CallHandleSignals
    \/ CallSigReturn
    \/ \E ctx \in UserContexts : UserRuns(ctx)

SpecSignal == SignalInit /\ [][SignalNext]_vars

\* the signals that are pending and unmasked
Deliverable(s) == s.received \ s.mask
\* this step is a delivery attempt
AttemptStep == sigRes'.op = "handle_signals"
\* this step is a delivery attempt that acts on a signal
AttemptActs == AttemptStep /\ sig'.received # sig.received

(***************************************************************************)
(* C8 as stated.  Whenever a delivery attempt acts on a signal, it is the  *)
(* lowest-numbered pending-unmasked one, and only its bit is cleared.      *)
(***************************************************************************)
SignalLowestFirstAlways ==
    [][ AttemptActs =>
          /\ Deliverable(sig) # {}
          /\ sig.received \ sig'.received = {SetMin(Deliverable(sig))}
          /\ sig'.received \subseteq sig.received ]_vars

(***************************************************************************)
(* C8 amended.  Whenever a delivery attempt acts on a signal, only that    *)
(* signal's pending bit is cleared, and the signal is SIGKILL if SIGKILL   *)
(* is pending and unmasked, else SIGCONT if the process is frozen, else    *)
(* the lowest-numbered pending-unmasked signal.                            *)
(***************************************************************************)
SignalLowestFirst ==
    [][ AttemptActs =>
          /\ Deliverable(sig) # {}
          /\ sig'.received \subseteq sig.received
          /\ sig.received \ sig'.received =
                IF SIGKILL \in Deliverable(sig) THEN {SIGKILL}
                ELSE IF sig.handling = Some(Frozen) THEN {SIGCONT}
                ELSE {SetMin(Deliverable(sig))}
          /\ sig.received \ sig'.received \subseteq Deliverable(sig) ]_vars

\* C8 witness: SIGHUP (1) was delivered to its handler while SIGUSR1 (10)
\* stays pending and unmasked
SignalLowestFirstWitness ==
    /\ sigRes.op = "handle_signals"
    /\ sigRes.ret = Handled
    /\ sigCtx.a0 = 1
    /\ 10 \in Deliverable(sig)

(***************************************************************************)
(* C9  If SIGKILL is pending and unmasked when delivery is attempted, the  *)
(* attempt clears the SIGKILL bit (and no other) and reports               *)
(* ProcessKilled(-9), whatever the handling state.                         *)
(***************************************************************************)
SigkillAlwaysKills ==
    [][ (AttemptStep /\ SIGKILL \in Deliverable(sig)) =>
          /\ sigRes'.ret = [kind |-> "ProcessKilled", code |-> -9]
          /\ sig'.received = sig.received \ {SIGKILL} ]_vars

\* C9 witness: a delivery attempt reported ProcessKilled(-9) while a user
\* handler was running
SigkillWitness ==
    /\ sigRes.op = "handle_signals"
    /\ sigRes.ret = [kind |-> "ProcessKilled", code |-> -9]
    /\ IsSome(sig.handling)
    /\ Unwrap(sig.handling).kind = "UserSignal"

(***************************************************************************)
(* C10  With no handling state active and SIGKILL not deliverable, when    *)
(* the lowest deliverable signal s has an action with handler H # 0, the   *)
(* attempt stores the context as it was before the call, sets pc to H and  *)
(* a0 to s, enters user-handler-running and reports Handled.               *)
(***************************************************************************)
HandlerEntrySavesContext ==
    [][ ( /\ AttemptStep
          /\ sig.handling = None
          /\ SIGKILL \notin Deliverable(sig)
          /\ Deliverable(sig) # {}
          /\ IsSome(sig.actions[SetMin(Deliverable(sig))])
          /\ Unwrap(sig.actions[SetMin(Deliverable(sig))]).handler # 0 )
        => LET s == SetMin(Deliverable(sig))
               H == Unwrap(sig.actions[s]).handler
           IN /\ sig'.handling = Some(UserSignal(sigCtx))
              /\ sigCtx' = [sigCtx EXCEPT !.pc = H, !.a0 = s]
              /\ sigRes'.ret = Handled ]_vars

\* C10 witness: SIGUSR1 was delivered to the handler at 4096 and the saved
\* context is the one the thread had before
HandlerEntryWitness ==
    /\ sigRes.op = "handle_signals"
    /\ sigRes.ret = Handled
    /\ sigCtx.pc = 4096
    /\ sigCtx.a0 = 10
    /\ IsSome(sig.handling)
    /\ Unwrap(sig.handling).kind = "UserSignal"
    /\ Unwrap(sig.handling).ctx \in UserContexts

\* the process is running a user handler
InUserHandler(s) ==
    IsSome(s.handling) /\ Unwrap(s.handling).kind = "UserSignal"

\* C12: while a user handler runs and SIGKILL is not pending and unmasked,
\* every delivery attempt reports IsHandlingSignal and leaves the pending
\* set, the mask, the saved context (the single snapshot kept in handling)
\* and the current context as they were.
HandlerDoesNotNest ==
    [][ ( /\ AttemptStep
          /\ InUserHandler(sig)
          /\ SIGKILL \notin Deliverable(sig) )
        => /\ sigRes'.ret = IsHandlingSignal
           /\ sig' = sig
           /\ sigCtx' = sigCtx ]_vars

\* C12 witness: an attempt made with deliverable signals pending was turned
\* down because a handler is running
HandlerDoesNotNestWitness ==
    /\ sigRes.op = "handle_signals"
    /\ sigRes.ret = IsHandlingSignal
    /\ InUserHandler(sig)
    /\ Deliverable(sig) # {}
    /\ sigCtx # Unwrap(sig.handling).ctx

\* C14: while the process is frozen and SIGKILL is not pending and unmasked,
\* a delivery attempt reports ProcessSuspended and changes nothing, unless
\* SIGCONT is pending and unmasked: then it clears SIGCONT only, leaves the
\* frozen state and reports Handled.
FrozenWaitsForSigcont ==
    [][ ( /\ AttemptStep
          /\ sig.handling = Some(Frozen)
          /\ SIGKILL \notin Deliverable(sig) )
        => /\ sigCtx' = sigCtx
           /\ IF SIGCONT \in Deliverable(sig)
              THEN /\ sigRes'.ret = Handled
                   /\ sig' = [sig EXCEPT !.received = @ \ {SIGCONT},
                                         !.handling = None]
              ELSE /\ sigRes'.ret = ProcessSuspended
                   /\ sig' = sig ]_vars

\* C14 witness: a frozen process was resumed by SIGCONT (only that path
\* reports Handled with no handler entered) and other signals are still
\* pending
FrozenResumedWitness ==
    /\ sigRes.op = "handle_signals"
    /\ sigRes.ret = Handled
    /\ sig.handling = None
    /\ Deliverable(sig) # {}

(***************************************************************************)
(* Kernel-level specification: the threaded kernel ch8 after rust_main has *)
(* set up initproc, under any user code.  Each step is one iteration of    *)
(* the dispatch loop: the next ready thread runs and traps with a syscall  *)
(* made through a user-side wrapper, a timer interrupt or a fault.  User   *)
(* code is free: it may issue any of SyncCalls.     Resource bounds keep   *)
(* the state space finite.                                                 *)
(***************************************************************************)
SyncCalls ==
    {[call |-> c, args |-> <<0, 0>>] :
        c \in {"semaphore_create", "semaphore_up", "semaphore_down",
               "mutex_lock", "mutex_unlock",
               "condvar_create", "condvar_signal", "condvar_wait",
               "sched_yield", "exit"}}
    \cup {[call |-> "waittid", args |-> <<t, 0>>] : t \in 0..(MaxThreads - 1)}
    \cup {[call |-> "mutex_create", args |-> <<1, 0>>],
          [call |-> "thread_create", args |-> <<16, 0>>],
          [call |-> "kill", args |-> <<0, SIGKILL>>]}

\* the calls the resource bounds still allow to the thread about to run
AllowedCalls(k, tid, menu) ==
    LET pid == k.store[tid].pid IN
    IF pid \notin DOMAIN k.procs THEN {}
    ELSE {c \in menu :
            /\ c.call \in {"semaphore_create", "semaphore_up", "semaphore_down"}
                  => Len(k.procs[pid].semaphores) < MaxSemaphores
            /\ c.call = "mutex_create" => Len(k.procs[pid].mutexes) < MaxMutexes
            /\ c.call = "condvar_create"
                  => Len(k.procs[pid].condvars) < MaxCondvars
            /\ c.call \in {"thread_create", "fork"} => k.next_tid < MaxThreads}

\* what the thread about to run may do with its slice
UserTraps(k, tid, menu) ==
    LET ctx == k.store[tid].context IN
    {Timer(ctx)}
    \cup {Ecall([ctx EXCEPT !.pc = 12], c.call, c.args) : c \in AllowedCalls(k, tid, menu)}

KernelOthers ==
    <<overflowChecks, panicked, mutexVars, semVars, sigVars, procVars,
      portalVars>>

KernelInit ==
    /\ kernel = KernelNew(16)
    /\ lastTrap = NoTrap
    /\ prog = <<>>
    /\ trace = <<>>
    /\ umem = <<>>
    /\ overflowChecks = TRUE
    /\ panicked = FALSE
    /\ MutexIdle
    /\ SemIdle
    /\ SigIdle
    /\ ProcIdle
    /\ PortalIdle

Run(menu) ==
    /\ kernel.halted = "running"
    /\ \E trap \in IF NextThread(kernel) = None
                   THEN {Timer(LocalContextUser(0))}
                   ELSE UserTraps(kernel, Unwrap(NextThread(kernel)), menu) :
          LET Commit(d) == kernel' = d.k /\ lastTrap' = d.info
          IN Commit(Dispatch(kernel, trap))
    /\ UNCHANGED <<prog, trace, umem, KernelOthers>>

SyncNext == Run(SyncCalls)

SpecSync == KernelInit /\ [][SyncNext]_vars

(***************************************************************************)
(* Kernel-level specification for signals: the same kernel under user code *)
(* that forks, installs handlers, sends signals to its own and to the      *)
(* other processes and returns from handlers.  User code may leave any of  *)
(* UserValues in a0 when a timer interrupt ends its slice.                 *)
(***************************************************************************)
UserValues == {0, 5}

SigCalls ==
    {[call |-> "sigaction", args |-> <<signum, action, old>>] :
        signum \in {SIGUSR1, SIGKILL, SIGSTOP}, action \in {0, 32},
        old \in {0, 64}}
    \cup {[call |-> "kill", args |-> <<pid, signum, 0>>] :
             pid \in 0..(MaxSigProcs - 1), signum \in {SIGUSR1, SIGKILL}}
    \cup {[call |-> c, args |-> <<0, 0, 0>>] : c \in {"sigreturn", "fork", "exit"}}

SigKernelNext ==
    /\ kernel.halted = "running"
    /\ \E trap \in
            IF NextThread(kernel) = None THEN {Timer(LocalContextUser(0))}
            ELSE LET Traps(tid, ctx) ==
                         {Timer([ctx EXCEPT !.a0 = v]) : v \in UserValues}
                         \cup {Ecall([ctx EXCEPT !.pc = 12], c.call, c.args) :
                                  c \in {x \in AllowedCalls(kernel, tid, SigCalls) :
                                            x.call = "fork"
                                               => kernel.next_tid < MaxSigProcs}}
                     Of(tid) == Traps(tid, kernel.store[tid].context)
                 IN Of(Unwrap(NextThread(kernel))) :
          LET Commit(d) == kernel' = d.k /\ lastTrap' = d.info
          IN Commit(Dispatch(kernel, trap))
    /\ UNCHANGED <<prog, trace, umem, KernelOthers>>

SpecSigKernel == KernelInit /\ [][SigKernelNext]_vars

\* the exit codes user code passes to exit
ExitCodes == {3, -1, -2}

(***************************************************************************)
(* Kernel-level specification for the life cycle of processes and threads  *)
(* in ch8: user code forks, creates threads, exits with any of ExitCodes,  *)
(* and waits for children and for threads.                                 *)
(***************************************************************************)
LifeCalls ==
    {[call |-> c, args |-> <<0, 0>>] : c \in {"fork"}}
    \cup {[call |-> "thread_create", args |-> <<16, 0>>]}
    \cup {[call |-> "exit", args |-> <<c, 0>>] : c \in ExitCodes}
    \cup {[call |-> "waitpid", args |-> <<-1, 8>>]}
    \cup {[call |-> "waittid", args |-> <<t, 0>>] : t \in 0..(MaxThreads - 1)}

LifeNext == Run(LifeCalls)

SpecLife == KernelInit /\ [][LifeNext]_vars

(***************************************************************************)
(* Kernel-level specification for traps in ch8: user code forks, creates   *)
(* threads, yields, exits, waits for threads, changes its signal mask,     *)
(* makes a syscall ch8 does not support (exit_group), takes a fault or is  *)
(* interrupted by the timer.                                               *)
(***************************************************************************)
MaskWords == {1, Pow2(WordBits - 1)}

TrapCalls ==
    {[call |-> c, args |-> <<0, 0>>] :
        c \in {"fork", "sched_yield", "exit_group"}}
    \cup {[call |-> "thread_create", args |-> <<16, 0>>],
          [call |-> "exit", args |-> <<3, 0>>]}
    \cup {[call |-> "sigprocmask", args |-> <<m, 0>>] : m \in MaskWords}
    \cup {[call |-> "waittid", args |-> <<t, 0>>] : t \in 0..(MaxThreads - 1)}

TrapNext ==
    /\ kernel.halted = "running"
    /\ \E trap \in
            IF NextThread(kernel) = None THEN {Timer(LocalContextUser(0))}
            ELSE LET Traps(tid, ctx) ==
                         UserTraps(kernel, tid, TrapCalls) \cup {Fault(ctx)}
                     Of(tid) == Traps(tid, kernel.store[tid].context)
                 IN Of(Unwrap(NextThread(kernel))) :
          LET Commit(d) == kernel' = d.k /\ lastTrap' = d.info
          IN Commit(Dispatch(kernel, trap))
    /\ UNCHANGED <<prog, trace, umem, KernelOthers>>

SpecTraps == KernelInit /\ [][TrapNext]_vars

(***************************************************************************)
(* Kernel-level specification for stopping and killing in ch8: user code   *)
(* forks, yields, and sends SIGKILL, SIGSTOP and SIGCONT to its own and to *)
(* the other processes, or is interrupted by the timer.                    *)
(***************************************************************************)
StopCalls ==
    {[call |-> "kill", args |-> <<pid, signum, 0>>] :
        pid \in 0..(MaxSigProcs - 1), signum \in {SIGKILL, SIGSTOP, SIGCONT}}
    \cup {[call |-> c, args |-> <<0, 0, 0>>] : c \in {"sched_yield", "fork"}}

StopNext == Run(StopCalls)

SpecStop == KernelInit /\ [][StopNext]_vars

(***************************************************************************)
(* Kernel-level specification for address spaces in ch8: user code forks,  *)
(* creates threads, exits, yields and replaces its image with exec, by the *)
(* name of an application or by a null pointer.                            *)
(***************************************************************************)
ExecCalls ==
    {[call |-> c, args |-> <<0, 0>>] : c \in {"fork", "sched_yield"}}
    \cup {[call |-> "thread_create", args |-> <<16, 0>>],
          [call |-> "exit", args |-> <<3, 0>>]}
    \cup {[call |-> "exec", args |-> <<p, 0>>] : p \in {0} \cup DOMAIN Apps}

ExecNext ==
    /\ kernel.halted = "running"
    /\ \E trap \in
            IF NextThread(kernel) = None THEN {Timer(LocalContextUser(0))}
            ELSE LET Traps(tid) ==
                         {t \in UserTraps(kernel, tid, ExecCalls) :
                             t.call = "exec" => kernel.next_root < MaxRoots}
                 IN Traps(Unwrap(NextThread(kernel))) :
          LET Commit(d) == kernel' = d.k /\ lastTrap' = d.info
          IN Commit(Dispatch(kernel, trap))
    /\ UNCHANGED <<prog, trace, umem, KernelOthers>>

SpecExec == KernelInit /\ [][ExecNext]_vars

(***************************************************************************)
(* Kernel-level specification for waking under signals in ch8: user code   *)
(* installs a handler for SIGUSR1, forks, creates threads, sends SIGUSR1   *)
(* to initproc, waits for threads, exits and returns from handlers.        *)
(***************************************************************************)
WakeCalls ==
    {[call |-> c, args |-> <<0, 0, 0>>] : c \in {"fork", "sigreturn"}}
    \cup {[call |-> "sigaction", args |-> <<SIGUSR1, 32, 0>>],
          [call |-> "kill", args |-> <<0, SIGUSR1, 0>>],
          [call |-> "thread_create", args |-> <<16, 0, 0>>],
          [call |-> "exit", args |-> <<3, 0, 0>>]}
    \cup {[call |-> "waittid", args |-> <<t, 0, 0>>] :
             t \in 1..(MaxThreads - 1)}

WakeNext == Run(WakeCalls)

SpecWake == KernelInit /\ [][WakeNext]_vars

(***************************************************************************)
(* The same kernel under user code that creates a blocking mutex and a     *)
(* condvar, locks, unlocks, waits and signals, creates threads, forks, and *)
(* sends SIGKILL to initproc.                                              *)
(***************************************************************************)
QueueCalls ==
    {[call |-> c, args |-> <<0, 0>>] :
        c \in {"mutex_lock", "mutex_unlock", "condvar_create",
               "condvar_wait", "condvar_signal", "fork"}}
    \cup {[call |-> "mutex_create", args |-> <<1, 0>>],
          [call |-> "thread_create", args |-> <<16, 0>>],
          [call |-> "kill", args |-> <<0, SIGKILL>>]}

QueueNext == Run(QueueCalls)

SpecQueue == KernelInit /\ [][QueueNext]_vars

(***************************************************************************)
(* Kernel-level specification of the process kernel ch6 after rust_main    *)
(* has set up initproc, under any user code that forks, exits, waits and   *)
(* yields, makes a syscall ch6 does not support (kill) or faults.          *)
(***************************************************************************)
ProcCalls ==
    {[call |-> c, args |-> <<0, 0>>] : c \in {"fork", "sched_yield", "kill"}}
    \cup {[call |-> "exit", args |-> <<c, 0>>] : c \in ExitCodes}
    \cup {[call |-> "waitpid", args |-> <<p, q>>] :
             p \in (-2)..MaxPid, q \in {0}}

ProcInit ==
    /\ pman = Ch6New(16)
    /\ pmLog = NoProcLog
    /\ overflowChecks = TRUE
    /\ panicked = FALSE
    /\ MutexIdle
    /\ SemIdle
    /\ SigIdle
    /\ KernelIdle
    /\ PortalIdle

ProcNext ==
    /\ pman.halted = "running"
    /\ \E trap \in
            LET Traps(f) ==
                    IF f.current = None THEN {Fault(LocalContextUser(0))}
                    ELSE LET ctx == f.store[Unwrap(f.current)].context IN
                         {Fault(ctx)}
                         \cup {Ecall([ctx EXCEPT !.pc = 12], c.call, c.args) :
                                  c \in {x \in ProcCalls :
                                            x.call = "fork"
                                               => f.next_pid <= MaxPid}}
            IN Traps(PManagerFindNext(pman)) :
          LET Commit(d) == pman' = d.m /\ pmLog' = d.log
          IN Commit(Ch6Dispatch(pman, trap, pmLog))
    /\ UNCHANGED <<overflowChecks, panicked, mutexVars, semVars, sigVars,
                   kernel, lastTrap, prog, trace, umem, portalVars>>

SpecProc == ProcInit /\ [][ProcNext]_vars

(***************************************************************************)
(* Kernel-level specification of the process kernel ch5 after rust_main    *)
(* has set up initproc, under any user code that forks, exits, waits and   *)
(* yields, makes a syscall ch5 does not support (kill), hits a breakpoint  *)
(* or faults.                                                              *)
(***************************************************************************)
Ch5Calls ==
    {[call |-> c, args |-> <<0, 0>>] : c \in {"fork", "sched_yield", "kill"}}
    \cup {[call |-> "exit", args |-> <<c, 0>>] : c \in ExitCodes}
    \cup {[call |-> "waitpid", args |-> <<p, q>>] : p \in {-1, 1}, q \in {0, 8}}
    \cup {[call |-> "exec", args |-> <<p, 0>>] : p \in {0} \cup DOMAIN Apps}

Ch5Init ==
    /\ pman = Ch5New(16)
    /\ pmLog = NoProcLog
    /\ overflowChecks = TRUE
    /\ panicked = FALSE
    /\ MutexIdle
    /\ SemIdle
    /\ SigIdle
    /\ KernelIdle
    /\ PortalIdle

Ch5Next ==
    /\ pman.halted = "running"
    /\ \E trap \in
            LET Traps(f) ==
                    IF f.current = None THEN {Fault(LocalContextUser(0))}
                    ELSE LET ctx == f.store[Unwrap(f.current)].context IN
                         {Fault(ctx), Breakpoint(ctx)}
                         \cup {Ecall([ctx EXCEPT !.pc = 12], c.call, c.args) :
                                  c \in {x \in Ch5Calls :
                                            x.call = "fork"
                                               => f.next_pid <= MaxPid}}
            IN Traps(PManagerFindNext(pman)) :
          LET Commit(d) == pman' = d.m /\ pmLog' = d.log
          IN Commit(Ch5Dispatch(pman, trap, pmLog))
    /\ UNCHANGED <<overflowChecks, panicked, mutexVars, semVars, sigVars,
                   kernel, lastTrap, prog, trace, umem, portalVars>>

SpecCh5 == Ch5Init /\ [][Ch5Next]_vars

(***************************************************************************)
(* Specification of the portal page: the kernel fills any of its cache     *)
(* slots for a user context to run, then the trampoline is entered with    *)
(* the address of that slot; this happens MaxRuns times.                   *)
(***************************************************************************)
PortalInit ==
    /\ portal = PortalNew(MaxSlots)
    /\ overflowChecks = TRUE
    /\ panicked = FALSE
    /\ MutexIdle
    /\ SemIdle
    /\ SigIdle
    /\ KernelIdle
    /\ ProcIdle

PortalOthers ==
    <<overflowChecks, panicked, mutexVars, semVars, sigVars, kernel, lastTrap,
      prog, trace, umem, procVars>>

\* ForeignContext::execute up to the jump: transit_cache(key).init(..)
CallCacheInit(index, satp, pc, a0, supervisor, interrupt) ==
    /\ portal.step \in {"new", "user"}
    /\ portal.runs < MaxRuns
    /\ LET Fill(cache) ==
               portal' = [portal EXCEPT
                            !.page = TransitCacheInit(@, index, cache),
                            !.step = "init", !.slot = index, !.asked = cache,
                            !.regs = KernelRegs]
       IN Fill(PortalCacheInit(satp, pc, a0, supervisor, interrupt))
    /\ UNCHANGED PortalOthers

\* the trampoline runs on the slot just filled
CallPortalCode ==
    /\ portal.step = "init"
    /\ LET Enter(r) ==
               portal' = [portal EXCEPT !.page = r.page, !.regs = r.regs,
                                        !.step = "user", !.runs = @ + 1]
       IN Enter(PortalCode(portal.page, CacheOffset(portal.slot), portal.regs))
    /\ UNCHANGED PortalOthers

PortalNext ==
    \/ \E index \in 0..(MaxSlots - 1), satp \in {1, 2}, a0 \in {5, 6},
          interrupt \in BOOLEAN :
          CallCacheInit(index, satp, 16, a0, FALSE, interrupt)
    \/ CallPortalCode

SpecPortal == PortalInit /\ [][PortalNext]_vars

(***************************************************************************)
(* Scripted specifications: the same kernel under one fixed user program.  *)
(* prog is the program text, one instruction per 4 bytes; an instruction   *)
(* is a syscall made through a wrapper, or a store to / load from a slot   *)
(* of a buffer in user memory (umem).  A slice runs instructions from the  *)
(* thread's pc until a timer interrupt or an ecall ends it.                *)
(***************************************************************************)
Sys(call, a0, a1) ==
    [op |-> "ecall", call |-> call, args |-> <<a0, a1>>, slot |-> 0]
Store(slot) == [op |-> "store", call |-> "", args |-> <<0, 0>>, slot |-> slot]
Load(slot) == [op |-> "load", call |-> "", args |-> <<0, 0>>, slot |-> slot]

Fetch(pc) == prog[(pc \div 4) + 1]

\* a user-memory instruction: the slot counts its writes and its reads
UserOp(mem, ins) ==
    IF ins.op = "store" THEN [mem EXCEPT ![ins.slot].written = @ + 1]
    ELSE [mem EXCEPT ![ins.slot].read = @ + 1]

TraceEntry(d) ==
    [tid |-> d.info.tid, call |-> d.info.call, ret |-> d.info.ret,
     woken |-> d.k.woken]

ScriptStep(record) ==
    /\ kernel.halted = "running"
    /\ IF NextThread(kernel) = None
       THEN /\ kernel' = Dispatch(kernel, Timer(LocalContextUser(0))).k
            /\ lastTrap' = NoTrap
            /\ UNCHANGED <<trace, umem>>
       ELSE LET tid == Unwrap(NextThread(kernel))
                ctx == kernel.store[tid].context
            IN \E n \in 0..1, kind \in {"ecall", "timer"} :
                  /\ n = 1 => Fetch(ctx.pc).op # "ecall"
                  /\ kind = "ecall" => Fetch(ctx.pc + 4 * n).op = "ecall"
                  /\ LET at == [ctx EXCEPT !.pc = @ + 4 * n]
                         Commit(d) ==
                             /\ kernel' = d.k
                             /\ lastTrap' = d.info
                             /\ trace' = IF record /\ kind = "ecall"
                                         THEN Append(trace, TraceEntry(d))
                                         ELSE trace
                     IN /\ Commit(Dispatch(kernel,
                               IF kind = "ecall"
                               THEN Ecall(at, Fetch(at.pc).call, Fetch(at.pc).args)
                               ELSE Timer(at)))
                        /\ umem' = IF n = 1 THEN UserOp(umem, Fetch(ctx.pc))
                                   ELSE umem
    /\ UNCHANGED <<prog, KernelOthers>>

(***************************************************************************)
(* The condvar hand-off program (three threads contend for mutex 0 and     *)
(* condvar 0): thread A locks, waits, unlocks; thread B locks, signals,    *)
(* unlocks; the main thread creates the mutex, the condvar and the two     *)
(* threads, then locks and unlocks the mutex itself and waits for them.    *)
(***************************************************************************)
TextA == <<Sys("mutex_lock", 0, 0), Sys("condvar_wait", 0, 0),
           Sys("mutex_unlock", 0, 0), Sys("exit", 0, 0)>>
TextB == <<Sys("mutex_lock", 0, 0), Sys("condvar_signal", 0, 0),
           Sys("mutex_unlock", 0, 0), Sys("exit", 0, 0)>>
CondvarMain ==
    <<Sys("mutex_create", 1, 0), Sys("condvar_create", 0, 0),
      Sys("thread_create", 0, 0),
      Sys("thread_create", 4 * Len(TextA), 0),
      Sys("mutex_lock", 0, 0), Sys("mutex_unlock", 0, 0),
      Sys("waittid", 1, 0), Sys("waittid", 2, 0),
      Sys("exit", 0, 0)>>
CondvarText == TextA \o TextB \o CondvarMain

CondvarInit ==
    /\ kernel = KernelNew(4 * Len(TextA \o TextB))
    /\ lastTrap = NoTrap
    /\ prog = CondvarText
    /\ trace = <<>>
    /\ umem = <<>>
    /\ overflowChecks = TRUE
    /\ panicked = FALSE
    /\ MutexIdle
    /\ SemIdle
    /\ SigIdle
    /\ ProcIdle
    /\ PortalIdle

CondvarNext == ScriptStep(TRUE)

SpecCondvar == CondvarInit /\ [][CondvarNext]_vars

(***************************************************************************)
(* The producer/consumer program: semaphores empty (0), full (1) and       *)
(* mutex (2) and a buffer of Rounds slots.  In round r the producer does   *)
(* down(empty), up(full), down(mutex), writes slot r, up(mutex); the       *)
(* consumer does the mirror sequence and reads slot r.                     *)
(***************************************************************************)
ProducerText ==
    [i \in 1..(5 * Rounds) |->
        LET r == ((i - 1) \div 5) + 1
            j == (i - 1) % 5
        IN CASE j = 0 -> Sys("semaphore_down", 0, 0)
             [] j = 1 -> Sys("semaphore_up", 1, 0)
             [] j = 2 -> Sys("semaphore_down", 2, 0)
             [] j = 3 -> Store(r)
             [] OTHER -> Sys("semaphore_up", 2, 0)]
    \o <<Sys("exit", 0, 0)>>
ConsumerText ==
    [i \in 1..(5 * Rounds) |->
        LET r == ((i - 1) \div 5) + 1
            j == (i - 1) % 5
        IN CASE j = 0 -> Sys("semaphore_down", 1, 0)
             [] j = 1 -> Sys("semaphore_up", 0, 0)
             [] j = 2 -> Sys("semaphore_down", 2, 0)
             [] j = 3 -> Load(r)
             [] OTHER -> Sys("semaphore_up", 2, 0)]
    \o <<Sys("exit", 0, 0)>>
ProdConsMain ==
    <<Sys("semaphore_create", Rounds, 0), Sys("semaphore_create", 0, 0),
      Sys("semaphore_create", 1, 0),
      Sys("thread_create", 0, 0),
      Sys("thread_create", 4 * Len(ProducerText), 0),
      Sys("waittid", 1, 0), Sys("waittid", 2, 0), Sys("exit", 0, 0)>>
ProdConsText == ProducerText \o ConsumerText \o ProdConsMain

ProdConsInit ==
    /\ kernel = KernelNew(4 * Len(ProducerText \o ConsumerText))
    /\ lastTrap = NoTrap
    /\ prog = ProdConsText
    /\ trace = <<>>
    /\ umem = [s \in 1..Rounds |-> [written |-> 0, read |-> 0]]
    /\ overflowChecks = TRUE
    /\ panicked = FALSE
    /\ MutexIdle
    /\ SemIdle
    /\ SigIdle
    /\ ProcIdle
    /\ PortalIdle

ProdConsNext == ScriptStep(FALSE)

SpecProdCons == ProdConsInit /\ [][ProdConsNext]_vars

(***************************************************************************)
(* Properties of the kernel-level specifications                           *)
(***************************************************************************)
\* thread t is among the threads a trace entry re-queued
WokenIn(e, t) == \E w \in DOMAIN trace[e].woken : trace[e].woken[w].tid = t

\* thread t took mutex 0 at entry j: its own lock call went through, or a
\* mutex or condvar call of another thread handed the mutex to it
Acquires(t, j) ==
    \/ trace[j].tid = t /\ trace[j].call = "mutex_lock" /\ trace[j].ret = 0
    \/ /\ trace[j].call \in {"mutex_unlock", "condvar_wait", "condvar_signal"}
       /\ WokenIn(j, t)

\* thread t gave mutex 0 up at entry j
Releases(t, j) ==
    trace[j].tid = t /\ trace[j].call \in {"mutex_unlock", "condvar_wait"}

\* the threads that hold mutex 0 after entry e
Holders(e) ==
    {t \in 0..(kernel.next_tid - 1) :
        \E j \in 1..e : Acquires(t, j) /\ \A r \in (j + 1)..e : ~Releases(t, r)}

\* the entries after entry i that re-queued thread a
WakesAfter(i, a) == {e \in (i + 1)..Len(trace) : WokenIn(e, a)}

\* after entry i, some thread signalled the condvar and then unlocked
SignalledAfter(i) ==
    \E l, m \in DOMAIN trace :
        /\ i < l /\ l < m
        /\ trace[l].call = "condvar_signal"
        /\ trace[m].call = "mutex_unlock"
        /\ trace[m].tid = trace[l].tid

QueuedOnMutexZero(k, t) ==
    /\ 0 \in DOMAIN k.procs
    /\ GetMutex(k.procs[0], 0) # None
    /\ t \in Range(Unwrap(GetMutex(k.procs[0], 0)).waiting)

\* C3: once thread A (holding mutex M) has called condvar_wait(C, M) and
\* thread B has then locked M, signalled C and unlocked M, A is put back on
\* the ready queue exactly once (at the latest when the threads queued on M
\* ahead of it have released M), with a0 = 0; at that moment M is locked,
\* A is its only holder, A is on the ready queue once, and A has issued no
\* syscall (so no lock request) since its wait.
CondvarHandoff ==
    /\ \A i \in DOMAIN trace :
          trace[i].call = "condvar_wait" =>
             LET a == trace[i].tid
                 wakes == WakesAfter(i, a)
             IN /\ Cardinality(wakes) <= 1
                /\ \A e \in wakes :
                      /\ Cardinality({w \in DOMAIN trace[e].woken :
                                         trace[e].woken[w].tid = a}) = 1
                      /\ \A w \in DOMAIN trace[e].woken :
                            trace[e].woken[w].tid = a => trace[e].woken[w].ret = 0
                      /\ Holders(e) = {a}
                      /\ \A j \in (i + 1)..e : trace[j].tid # a
                      /\ \E l \in (i + 1)..e : trace[l].call = "condvar_signal"
                /\ SignalledAfter(i)
                      => wakes # {} \/ QueuedOnMutexZero(kernel, a)
                /\ SignalledAfter(i) /\ kernel.halted = "shutdown" => wakes # {}
    /\ \A w \in DOMAIN kernel.woken :
          LET a == kernel.woken[w].tid
              own == {j \in DOMAIN trace : trace[j].tid = a}
          IN (/\ lastTrap.call \in {"mutex_unlock", "condvar_signal", "condvar_wait"}
              /\ own # {}
              /\ trace[SetMax(own)].call = "condvar_wait")
             => /\ kernel.store[a].context.a0 = 0
                /\ Cardinality({j \in DOMAIN kernel.ready : kernel.ready[j] = a}) = 1
                /\ Unwrap(GetMutex(kernel.procs[0], 0)).locked

\* C3 witness: A has waited, B has then signalled and unlocked, and that
\* unlock has put A back on the ready queue
CondvarHandoffWitness ==
    /\ trace # <<>>
    /\ lastTrap.call = "mutex_unlock"
    /\ \E i \in DOMAIN trace :
          /\ trace[i].call = "condvar_wait"
          /\ SignalledAfter(i)
          /\ WakesAfter(i, trace[i].tid) = {Len(trace)}
          /\ \E l \in DOMAIN trace :
                trace[l].call = "condvar_signal" /\ trace[l].tid = lastTrap.tid
          /\ trace[i].tid \in Range(kernel.ready)

\* the condvar queue and the mutex a waiter named, in process pid
CondvarQueue(k, pid, c) == k.procs[pid].condvars[c + 1]

\* thread h, popped from a condvar queue by a signal, was given its mutex
\* (and woken with a0 = 0 if it still exists) or queued on that mutex; a
\* popped thread that named no mutex no longer exists
Served(k, kn, pid, h) ==
    LET cwm == k.procs[pid].condvar_wait_mutex IN
    IF h \in DOMAIN cwm
    THEN LET mx == Unwrap(GetMutex(kn.procs[pid], cwm[h])) IN
         \/ h \in Range(mx.waiting)
         \/ /\ mx.locked
            /\ h \in DOMAIN kn.store =>
                  /\ kn.woken = <<[tid |-> h, ret |-> 0]>>
                  /\ h \in Range(kn.ready)
                  /\ kn.store[h].context.a0 = 0
    ELSE h \notin DOMAIN k.store

\* C4: a condvar_wait that goes through queues the caller on the condvar,
\* gives the mutex up (free, or handed to the first thread queued on it)
\* and leaves the caller off the ready queue, all in the one step; a
\* condvar queue loses a thread only to a condvar_signal on it; and every
\* condvar_signal on a non-empty queue pops its first thread and serves it.
CondvarNoLostSignal ==
    [][/\ (/\ lastTrap'.kind = "ecall"
           /\ lastTrap'.call = "condvar_wait"
           /\ lastTrap'.ret = BLOCKED_RETURN
           /\ kernel'.halted = "running"
           /\ lastTrap'.pid \in DOMAIN kernel'.procs)
          => LET pid == lastTrap'.pid
                 t == lastTrap'.tid
                 c == lastTrap'.args[1]
                 old == Unwrap(GetMutex(kernel.procs[pid], lastTrap'.args[2]))
                 new == Unwrap(GetMutex(kernel'.procs[pid], lastTrap'.args[2]))
             IN /\ CondvarQueue(kernel', pid, c)
                      = Append(CondvarQueue(kernel, pid, c), t)
                /\ t \notin Range(kernel'.ready)
                /\ kernel'.current = None
                /\ IF old.waiting = <<>> THEN ~new.locked
                   ELSE /\ new.locked
                        /\ new.waiting = Tail(old.waiting)
       /\ \A pid \in (DOMAIN kernel.procs) \cap (DOMAIN kernel'.procs) :
             \A c \in 0..(Len(kernel.procs[pid].condvars) - 1) :
                LET q == CondvarQueue(kernel, pid, c)
                    qn == CondvarQueue(kernel', pid, c)
                IN IF /\ lastTrap'.kind = "ecall"
                      /\ lastTrap'.call = "condvar_signal"
                      /\ lastTrap'.pid = pid
                      /\ lastTrap'.args[1] = c
                   THEN q # <<>> => /\ qn = Tail(q)
                                    /\ Served(kernel, kernel', pid, Head(q))
                   ELSE /\ Len(q) <= Len(qn)
                        /\ SubSeq(qn, 1, Len(q)) = q
      ]_vars

\* C4 witness: a thread waits on the condvar, and a condvar_signal issued
\* later by another thread has found it and put it back on the ready queue
CondvarSignalFindsWaiter ==
    /\ lastTrap.kind = "ecall"
    /\ lastTrap.call = "condvar_signal"
    /\ lastTrap.ret = 0
    /\ Len(kernel.woken) = 1
    /\ kernel.woken[1].tid # lastTrap.tid
    /\ kernel.woken[1].tid \in Range(kernel.ready)

\* C6: a semaphore up(id) or down(id) made through the user wrapper and the
\* syscall dispatcher leaves the number of semaphores of the calling
\* process unchanged; with an invalid id it returns a negative value, else
\* up returns 0 waking at most one thread and down returns 0 or blocks.
SemaphoreSyscallUsesExisting ==
    [][(/\ lastTrap'.kind = "ecall"
        /\ lastTrap'.call \in {"semaphore_up", "semaphore_down"}
        /\ lastTrap'.pid \in DOMAIN kernel.procs)
       => LET pid == lastTrap'.pid
              n == Len(kernel.procs[pid].semaphores)
          IN /\ pid \in DOMAIN kernel'.procs
                   => Len(kernel'.procs[pid].semaphores) = n
             /\ IF lastTrap'.args[1] >= n THEN lastTrap'.ret < 0
                ELSE IF lastTrap'.call = "semaphore_up"
                THEN lastTrap'.ret = 0 /\ Len(kernel'.woken) <= 1
                ELSE lastTrap'.ret \in {0, BLOCKED_RETURN}
      ]_vars

\* what is left of the program: the instructions between each live thread's
\* pc and the end of the text, and the whole text for each thread not yet
\* created
RECURSIVE SumOver(_, _)
SumOver(f, S) ==
    IF S = {} THEN 0
    ELSE LET x == CHOOSE y \in S : TRUE IN f[x] + SumOver(f, S \ {x})
Remaining(k) ==
    SumOver([t \in DOMAIN k.store |-> 4 * Len(prog) - k.store[t].context.pc],
            DOMAIN k.store)
    + (MaxThreads - k.next_tid) * 4 * Len(prog)

ProdConsDone ==
    /\ kernel.halted = "shutdown"
    /\ DOMAIN kernel.store = {}
    /\ \A s \in DOMAIN umem : umem[s].written = 1 /\ umem[s].read = 1

\* C7: in the producer/consumer run both threads run to termination and
\* each slot is written exactly once and read exactly once.  Every step
\* keeps the kernel from panicking and every slot at no more than one write
\* and one read; a slice that ends in a syscall brings the program strictly
\* nearer its end and no slice takes it back, so the run ends once slices
\* reach their syscalls; and the kernel stops for want of tasks only when
\* every thread has terminated with every slot written once and read once.
ProdConsSlotsOnce ==
    [][/\ kernel'.halted # "panic"
       /\ \A s \in DOMAIN umem' : umem'[s].written <= 1 /\ umem'[s].read <= 1
       /\ Remaining(kernel') <= Remaining(kernel)
       /\ lastTrap'.kind = "ecall" => Remaining(kernel') < Remaining(kernel)
       /\ kernel'.halted = "shutdown" => ProdConsDone'
      ]_vars

\* the run is over: both threads and the main thread have terminated
ProdConsWitness ==
    /\ ProdConsDone
    /\ lastTrap = NoTrap

(***************************************************************************)
(* Claims about signals in the threaded kernel                             *)
(***************************************************************************)
\* a sigreturn syscall that succeeded, after which no further signal was
\* delivered in the same iteration
SigreturnDone ==
    /\ lastTrap'.kind = "ecall"
    /\ lastTrap'.call = "sigreturn"
    /\ lastTrap'.ret = 0
    /\ lastTrap'.sig = NoSignal
    /\ lastTrap'.tid \in DOMAIN kernel'.store

\* C11: after a handler returns through the sigreturn syscall, the context
\* the thread is resumed with equals, in every register and in pc, the
\* context saved at handler entry.
SigreturnRestoresContext ==
    [][SigreturnDone =>
          kernel'.store[lastTrap'.tid].context =
              Unwrap(kernel.procs[lastTrap'.pid].signal.handling).ctx]_vars

\* C13: in every reachable state no process has an action for SIGKILL or
\* SIGSTOP, and every sigaction syscall that names SIGKILL or SIGSTOP
\* returns a failure and leaves the signal state of the caller's process as
\* it was.
SigactionRejectsKillStop ==
    /\ [](\A p \in DOMAIN kernel.procs :
            /\ kernel.procs[p].signal.actions[SIGKILL] = None
            /\ kernel.procs[p].signal.actions[SIGSTOP] = None)
    /\ [][ ( /\ lastTrap'.kind = "ecall"
             /\ lastTrap'.call = "sigaction"
             /\ lastTrap'.args[1] \in {SIGKILL, SIGSTOP} )
           => /\ lastTrap'.ret = -1
              /\ lastTrap'.pid \in DOMAIN kernel'.procs
                    => kernel'.procs[lastTrap'.pid].signal.actions =
                          kernel.procs[lastTrap'.pid].signal.actions ]_vars

(***************************************************************************)
(* Claims about processes: wait, exit and reparenting                      *)
(***************************************************************************)
\* the processes alive in m whose parent is c; initproc is registered with
\* itself as parent, so it counts among its own children
LiveChildrenOf(m, c) ==
    {q \in DOMAIN m.store : q \in DOMAIN m.relations /\ m.relations[q].parent = c}

\* the (pid, code) of the processes that exited as children of c and that no
\* wait call has returned yet
DeadChildrenOf(m, log, c) ==
    {e \in Range(log.exited) :
        /\ e[1] \in DOMAIN m.relations
        /\ m.relations[e[1]].parent = c
        /\ \A i \in DOMAIN log.reaped : log.reaped[i][2] # e}

\* the retry sentinel of wait
WaitSentinel == <<UsizeMax - 1, -1>>

\* this iteration handled waitpid(p) with p >= -1
WaitStep == pmLog'.call = "waitpid" /\ pmLog'.args[1] >= -1

ReapsOf(q) == {i \in DOMAIN pmLog.reaped : pmLog.reaped[i][2][1] = q}

\* this iteration ended the process q, whose parent c is alive, with `code`
ExitsUnder(q, c, code) ==
    /\ Len(pmLog'.exited) = Len(pmLog.exited) + 1
    /\ pmLog'.exited[Len(pmLog'.exited)] = <<q, code>>
    /\ q \in DOMAIN pman.relations
    /\ pman.relations[q].parent = c
    /\ c # q
    /\ c \in DOMAIN pman'.store

\* this iteration handled Wait(-1) called by c
WaitAnyBy(c) ==
    pmLog'.call = "waitpid" /\ pmLog'.args[1] = -1 /\ pmLog'.pid = c

\* C16: a child that terminates with code c is recorded as dead under its
\* current parent; a wait call returns a child only to its parent, with
\* the code it exited with, and no child is returned twice; and if the
\* parent keeps calling Wait(-1), every child recorded as dead under it is
\* eventually returned to it.
WaitReaping ==
    /\ [][\A q \in 1..MaxPid, c \in 0..MaxPid, code \in ExitCodes \cup {-2, -3} :
            ExitsUnder(q, c, code)
               => <<q, code>> \in Range(pman'.relations[c].dead_children)]_vars
    /\ [](\A i \in DOMAIN pmLog.reaped :
             /\ pmLog.reaped[i][2] \in Range(pmLog.exited)
             /\ pman.relations[pmLog.reaped[i][2][1]].parent = pmLog.reaped[i][1]
             /\ ReapsOf(pmLog.reaped[i][2][1]) = {i})
    /\ \A q \in 1..MaxPid, c \in 0..MaxPid :
          ([]<><<WaitAnyBy(c)>>_vars)
             => ((/\ c \in DOMAIN pman.relations
                  /\ \E code \in ExitCodes \cup {-2, -3} :
                        <<q, code>> \in Range(pman.relations[c].dead_children))
                  ~> (ReapsOf(q) # {}))

\* C16 witness: process 1 exited, then process 2 exited with code 3, and a
\* wait of initproc returned (2, 3)
WaitReapingWitness ==
    /\ pmLog.call = "waitpid"
    /\ pmLog.pid = 0
    /\ pmLog.waited = Some(<<2, 3>>)
    /\ Len(pmLog.exited) = 2
    /\ pmLog.exited[1][1] = 1
    /\ pman.relations[1].children = <<>>
    /\ pman.relations[1].dead_children = <<>>

\* C17: when a process exits while it has live children, each child gets
\* initproc (pid 0) as parent and is appended to initproc's live-children
\* list (threaded kernel: the process exits when its last thread does).
\* Stated for the exit of any process but initproc itself.
OrphansGoToInit ==
    [][\A p \in (DOMAIN kernel.procs \ DOMAIN kernel'.procs) \ {0} :
         \A q \in Range(kernel.relations[p].children) \cap DOMAIN kernel'.procs :
            /\ q \in DOMAIN kernel'.relations
            /\ kernel'.relations[q].parent = 0
            /\ 0 \in DOMAIN kernel'.relations
            /\ q \in Range(kernel'.relations[0].children)]_vars

\* the threads that leave the task store in this iteration
ExitingThreads == DOMAIN kernel.store \ DOMAIN kernel'.store

\* the exit code of the thread that exits in this iteration
ExitCodeNow ==
    IF lastTrap'.kind = "ecall" /\ lastTrap'.call = "exit"
    THEN lastTrap'.args[1]
    ELSE IF lastTrap'.sig.kind = "ProcessKilled" THEN lastTrap'.sig.code
    ELSE IF lastTrap'.kind = "ecall" THEN -2 ELSE -3

\* C18: when a thread exits as the last live thread of its process, the
\* process leaves the process store and the relations table and (pid, exit
\* code) is appended to its parent's dead-children; while other live
\* threads remain, the process is kept and no relation record but its own
\* changes.  Stated for every process but initproc, which is its own parent.
LastThreadEndsProcess ==
    [][\A t \in ExitingThreads :
         LET Check(p, rels) ==
                 IF p = 0 THEN TRUE
                 ELSE IF Range(rels[p].threads) = {t}
                 THEN /\ p \notin DOMAIN kernel'.procs
                      /\ p \notin DOMAIN kernel'.relations
                      /\ rels[p].parent \in DOMAIN kernel'.relations
                      /\ kernel'.relations[rels[p].parent].dead_children =
                            Append(rels[rels[p].parent].dead_children,
                                   <<p, ExitCodeNow>>)
                 ELSE /\ p \in DOMAIN kernel'.procs
                      /\ DOMAIN kernel'.relations = DOMAIN rels
                      /\ \A r \in DOMAIN rels \ {p} :
                            kernel'.relations[r] = rels[r]
                      /\ kernel'.relations[p].dead_children =
                            rels[p].dead_children
         IN Check(kernel.store[t].pid, kernel.relations)]_vars

\* this iteration handled waittid(t) called by a thread of a process that
\* records t as a thread that exited with `code`
WaittidOfDead(t, code) ==
    /\ lastTrap'.kind = "ecall"
    /\ lastTrap'.call = "waittid"
    /\ lastTrap'.args[1] = t
    /\ lastTrap'.pid \in DOMAIN kernel.relations
    /\ <<t, code>> \in Range(kernel.relations[lastTrap'.pid].dead_threads)

\* C19: waittid(t) on a thread t of the caller's process that has exited
\* with code c returns c at once, without blocking the caller, for every
\* exit code c.
WaittidReturnsExitCode ==
    [][\A t \in 0..(MaxThreads - 1), code \in ExitCodes \cup {-3} :
         WaittidOfDead(t, code)
            => /\ lastTrap'.ret = code
               /\ lastTrap'.tid \in DOMAIN kernel'.store
               /\ kernel'.store[lastTrap'.tid].context.a0 = code
               /\ lastTrap'.tid \in Range(kernel'.ready)]_vars

\* the threads blocked in waittid(t): the waiters the process of t keeps
\* under t
WaittidWaiters(k, t) ==
    IF t \in DOMAIN k.store /\ k.store[t].pid \in DOMAIN k.procs
       /\ t \in DOMAIN k.procs[k.store[t].pid].waittid_waiters
    THEN k.procs[k.store[t].pid].waittid_waiters[t]
    ELSE <<>>

\* how many times x occurs in the sequence s
Count(s, x) == Cardinality({i \in DOMAIN s : s[i] = x})

WaitpidOnLiveChild ==
    /\ lastTrap'.kind = "ecall"
    /\ lastTrap'.call = "waitpid"
    /\ lastTrap'.args[1] = -1
    /\ lastTrap'.pid \in DOMAIN kernel.relations
    /\ \E c \in Range(kernel.relations[lastTrap'.pid].children) :
          c # lastTrap'.pid /\ c \in DOMAIN kernel.procs
    /\ kernel.relations[lastTrap'.pid].dead_children = <<>>

\* C21: in the threaded kernel, waitpid on a child that is still live
\* returns the blocked sentinel to the dispatcher, which leaves the caller
\* off the ready queue.
WaitpidBlocksOnLiveChild ==
    [][WaitpidOnLiveChild
          => /\ lastTrap'.ret = BLOCKED_RETURN
             /\ lastTrap'.tid \notin Range(kernel'.ready)]_vars

\* this iteration of ch5 handled a fork that succeeded and gave the child a
\* pid no process in the store had
Ch5ForkedFresh ==
    /\ pmLog'.kind = "ecall"
    /\ pmLog'.call = "fork"
    /\ pmLog'.ret >= 0
    /\ pmLog'.ret \notin DOMAIN pman.store

\* C22: a successful fork leaves the child's pid in the parent's a0 and 0 in
\* the child's a0, the child resumes where the parent does (after the fork
\* ecall), and right after the call parent and child are each on the ready
\* queue once.  Stated for ch5, for a child whose pid was not in use.
ForkContract ==
    [][Ch5ForkedFresh
          => LET Holds(parent, child) ==
                     /\ parent \in DOMAIN pman'.store
                     /\ child \in DOMAIN pman'.store
                     /\ pman'.store[parent].context.a0 = child
                     /\ pman'.store[child].context.a0 = 0
                     /\ pman'.store[child].context.pc =
                           pman'.store[parent].context.pc
                     /\ Count(pman'.ready, parent) = 1
                     /\ Count(pman'.ready, child) = 1
             IN Holds(pmLog'.pid, pmLog'.ret)]_vars

\* C23: every pid given to a forked child differs from the pid of every
\* process in the task store, initproc (pid 0) included, and is larger than
\* every pid handed out before.  Stated for ch5.
ForkedPidIsFresh ==
    [][(pmLog'.kind = "ecall" /\ pmLog'.call = "fork" /\ pmLog'.ret >= 0)
          => /\ pmLog'.ret \notin DOMAIN pman.store
             /\ pmLog'.ret # 0
             /\ pmLog'.ret >= pman.next_pid
             /\ pman'.next_pid > pmLog'.ret]_vars

\* this iteration ended with an unsupported syscall or with a fault
UnsupportedOrFault ==
    \/ lastTrap'.kind = "fault"
    \/ lastTrap'.kind = "ecall" /\ ~lastTrap'.done

\* the exit code the dispatcher gives the offending thread
OffenceCode == IF lastTrap'.kind = "fault" THEN -3 ELSE -2

\* C24: a thread that issues an unsupported syscall is terminated with exit
\* code -2 and a thread that takes an unhandled fault with exit code -3;
\* only that thread leaves the task store (and its process only when it
\* was the last thread), the code is what is recorded for the exit and
\* what the threads waiting for it are woken with, and the kernel keeps
\* running with every other runnable thread still queued.
OffenderAloneIsRemoved ==
    [][UnsupportedOrFault
          => LET Holds(t, p, code) ==
                     /\ DOMAIN kernel'.store = DOMAIN kernel.store \ {t}
                     /\ \A u \in DOMAIN kernel'.store :
                           kernel'.store[u].pid = kernel.store[u].pid
                     /\ IF Range(kernel.relations[p].threads) = {t}
                        THEN /\ DOMAIN kernel'.procs = DOMAIN kernel.procs \ {p}
                             /\ \A q \in DOMAIN kernel'.relations :
                                   LET old == kernel.relations[q].dead_children
                                       new == kernel'.relations[q].dead_children
                                   IN new = old \/ new = Append(old, <<p, code>>)
                        ELSE /\ DOMAIN kernel'.procs = DOMAIN kernel.procs
                             /\ kernel'.relations[p].dead_threads =
                                   Append(kernel.relations[p].dead_threads,
                                          <<t, code>>)
                     /\ \A w \in Range(WaittidWaiters(kernel, t)) :
                           /\ kernel'.store[w].context.a0 = code
                           /\ w \in Range(kernel'.ready)
                     /\ kernel'.halted = "running"
                     /\ \A u \in Range(kernel.ready) \ {t} :
                           Count(kernel'.ready, u) = Count(kernel.ready, u)
                     /\ (\E u \in Range(kernel.ready) \ {t} :
                            u \in DOMAIN kernel.store)
                           => NextThread(kernel') # None
             IN Holds(lastTrap'.tid, lastTrap'.pid, OffenceCode)]_vars

\* C24 witness: a thread was terminated for an unsupported syscall, -2 is
\* recorded for it in its process, and another thread is ready to run
OffenderRemovedWitness ==
    /\ lastTrap.kind = "ecall"
    /\ ~lastTrap.done
    /\ lastTrap.tid \notin DOMAIN kernel.store
    /\ lastTrap.pid \in DOMAIN kernel.relations
    /\ <<lastTrap.tid, -2>> \in Range(kernel.relations[lastTrap.pid].dead_threads)
    /\ kernel.halted = "running"
    /\ NextThread(kernel) # None

\* the processes that leave the process store in this iteration because a
\* signal killed their last thread
KilledBySignal ==
    IF lastTrap'.sig.kind = "ProcessKilled"
    THEN DOMAIN kernel.procs \ DOMAIN kernel'.procs
    ELSE {}

\* the signal that killed process p in this iteration is one it had
\* received, or the one it has just sent to itself
KillingSignals(p) ==
    {s \in 1..MAX_SIG :
        \/ s \in kernel.procs[p].signal.received
        \/ /\ lastTrap'.call = "kill"
           /\ lastTrap'.args[1] = p
           /\ lastTrap'.args[2] = s}

\* C25: when a signal sig terminates a process, (pid, -sig) is appended to
\* the dead-children list of its parent.  Stated for every process but
\* initproc, which is its own parent.
KilledProcessCode ==
    [][\A p \in KilledBySignal \ {0} :
         LET Recorded(par, code) ==
                 /\ \E s \in KillingSignals(p) : code = 0 - s
                 /\ par \in DOMAIN kernel'.relations
                 /\ kernel'.relations[par].dead_children =
                       Append(kernel.relations[par].dead_children, <<p, code>>)
         IN Recorded(kernel.relations[p].parent, lastTrap'.sig.code)]_vars

\* C27: cache slot i of the portal page starts at byte offset
\* 8 + PORTAL_CODE_SIZE + 56*i and is 56 bytes long, with a0, a1, satp,
\* sstatus, sepc, stvec, sscratch at offsets 0, 8, 16, 24, 32, 40, 48; the
\* kernel-side accessor stores the fields there and the trampoline loads
\* from there what the kernel stored.
PortalLayoutAgrees ==
    LET Agrees(start) ==
            /\ CacheOffset(portal.slot) = start
            /\ SizeOfPortalCache = 56
            /\ portal.step = "init"
                  => /\ portal.page[start] = portal.asked.a0
                     /\ portal.page[start + 16] = portal.asked.satp
                     /\ portal.page[start + 24] = portal.asked.sstatus
                     /\ portal.page[start + 32] = portal.asked.sepc
            /\ portal.step = "user"
                  => /\ portal.regs.a0 = portal.asked.a0
                     /\ portal.regs.satp = portal.asked.satp
                     /\ portal.regs.sstatus = portal.asked.sstatus
                     /\ portal.regs.sepc = portal.asked.sepc
                     /\ portal.page[start + 8] = KernelRegs.a1
                     /\ portal.page[start + 16] = KernelRegs.satp
                     /\ portal.page[start + 40] = KernelRegs.stvec
                     /\ portal.page[start + 48] = KernelRegs.sscratch
    IN portal.step \in {"init", "user"}
          => Agrees(8 + PORTAL_CODE_SIZE + 56 * portal.slot)

\* C26: for every previous mask m, sigprocmask(mask) installs mask, leaves
\* m in the caller's a0 and leaves the caller on the ready queue: no m is
\* taken by the dispatcher for the blocked sentinel.
SigprocmaskReturnsOldMask ==
    [][(lastTrap'.kind = "ecall" /\ lastTrap'.call = "sigprocmask")
          => LET Holds(t, p, m) ==
                     /\ kernel'.procs[p].signal.mask =
                           MaskOfWord(lastTrap'.args[1])
                     /\ lastTrap'.ret = AsIsize(WordOfMask(m))
                     /\ t \in DOMAIN kernel'.store
                     /\ kernel'.store[t].context.a0 = AsIsize(WordOfMask(m))
                     /\ Count(kernel'.ready, t) = 1
             IN Holds(lastTrap'.tid, lastTrap'.pid,
                      kernel.procs[lastTrap'.pid].signal.mask)]_vars

\* the ids of the ready queue that name a task of the store, oldest first
ReadyInStore(k) == SelectSeq(k.ready, LAMBDA id : id \in DOMAIN k.store)

\* C28: when the ready queue holds the id of a task of the store, one
\* iteration of the dispatch loop runs the earliest-enqueued such task and
\* does not report "no task"; the loop reports "no task" and stops only when
\* the ready queue holds no such id.
DispatchRunsEarliest ==
    [][kernel' # kernel =>
          IF ReadyInStore(kernel) # <<>>
          THEN /\ lastTrap'.kind # "none"
               /\ lastTrap'.tid = Head(ReadyInStore(kernel))
               /\ kernel'.halted # "shutdown"
          ELSE /\ lastTrap'.kind = "none"
               /\ kernel'.halted = "shutdown"]_vars

\* the earliest of several ready threads was run and yielded: it is back on
\* the ready queue behind the others
EarliestRanWitness ==
    /\ lastTrap.kind = "ecall"
    /\ lastTrap.call = "sched_yield"
    /\ Len(kernel.ready) >= 2
    /\ kernel.ready[Len(kernel.ready)] = lastTrap.tid
    /\ Count(kernel.ready, lastTrap.tid) = 1

\* C29: in every reachable scheduler state each id of the ready queue names
\* a task of the store, and the parent recorded for each live process still
\* has a relations record.
ReadyAndParentsResolve ==
    /\ \A i \in DOMAIN kernel.ready : kernel.ready[i] \in DOMAIN kernel.store
    /\ \A p \in DOMAIN kernel.procs :
          /\ p \in DOMAIN kernel.relations
          /\ kernel.relations[p].parent \in DOMAIN kernel.relations

\* the exit code of process p is recorded among the dead children of parent
RecordedDead(m, parent, p, code) ==
    /\ parent \in DOMAIN m.relations
    /\ \E i \in DOMAIN m.relations[parent].dead_children :
          m.relations[parent].dead_children[i] = <<p, code>>

\* C30: at the end of every iteration of the dispatch loop, whatever the
\* trap, the dispatched task is on the ready queue exactly once, or is kept by
\* a wait structure that will re-enqueue it, or is deleted from the store with
\* its exit code handed to its parent.  The process kernels keep no wait
\* structure, so there the task is either queued once or deleted.
DispatchedTaskIsAccounted ==
    [][(pmLog'.kind # "none" /\ pmLog'.pid \in DOMAIN pman.store
        /\ pmLog'.pid \in DOMAIN pman.relations)
          => LET Holds(p, parent) ==
                     \/ /\ p \in DOMAIN pman'.store
                        /\ Count(pman'.ready, p) = 1
                     \/ /\ p \notin DOMAIN pman'.store
                        /\ Count(pman'.ready, p) = 0
                        /\ (parent # p /\ parent \in DOMAIN pman'.relations)
                              => RecordedDead(pman', parent, p, pmLog'.ret)
             IN Holds(pmLog'.pid, pman.relations[pmLog'.pid].parent)]_vars

\* C31: whenever the verdict of the signal subsystem for the dispatched
\* thread is ProcessKilled, after any syscall (sched_yield included) and after
\* a timer interrupt, the thread is out of the task store and off the ready
\* queue at the end of the iteration, so it is never dispatched again.
KilledThreadIsRemoved ==
    [][(lastTrap'.kind \in {"ecall", "timer"}
        /\ lastTrap'.sig.kind = "ProcessKilled"
        /\ kernel' # kernel)
          => /\ lastTrap'.tid \notin DOMAIN kernel'.store
             /\ lastTrap'.tid \notin Range(kernel'.ready)]_vars

\* C32: in every reachable state the satp kept with each thread is the satp
\* of the address space its process has now, also for the sibling threads
\* after one thread of the process has called exec.
ThreadSatpIsCurrent ==
    \A t \in DOMAIN kernel.store :
        kernel.store[t].pid \in DOMAIN kernel.procs
           => kernel.store[t].satp =
                 ProcessSatp(kernel.procs[kernel.store[t].pid])

\* C33: whatever thread_create calls and thread exits a process (or a child
\* forked from one of its threads) has made, the stack range picked for a new
\* thread holds no page mapped in the address space of the process, so the
\* assertion of the mapping that the target PTE is not valid holds.
NewStackIsUnmapped ==
    [][(lastTrap'.kind = "ecall" /\ lastTrap'.call = "thread_create"
        /\ lastTrap'.pid \in DOMAIN kernel.procs)
          => LET Fresh(proc) == FreeStackSlot(proc) \notin proc.space.stacks
             IN /\ Fresh(kernel.procs[lastTrap'.pid])
                /\ kernel'.halted # "panic"]_vars

\* C34: the parent relation of processes has no cycle in any reachable
\* state: no process is its own parent and none is in its own list of live
\* children, initproc after boot and after reparenting included.
NoSelfParent ==
    \A p \in DOMAIN kernel.relations :
        /\ kernel.relations[p].parent # p
        /\ p \notin Range(kernel.relations[p].children)

\* C35: after a successful exec the calling task resumes at exactly the
\* entry point of the new ELF image (the context of the new image also holds
\* the stack pointer of the newly mapped stack).
ExecResumesAtEntry ==
    [][(pmLog'.kind = "ecall" /\ pmLog'.call = "exec" /\ pmLog'.ret = 0
        /\ pmLog'.pid \in DOMAIN pman'.store)
          => pman'.store[pmLog'.pid].context.pc = Apps[pmLog'.args[1]]]_vars

\* the process is frozen: SIGSTOP has been taken and SIGCONT not yet
IsFrozen(proc) == proc.signal.handling = Some(Frozen)

\* C36: from the delivery attempt that freezes a process (SIGSTOP) to the
\* one that consumes SIGCONT the process stays suspended: none of its threads
\* executes user-mode instructions, so none of them gets as far as an ecall.
FrozenProcessDoesNotRun ==
    [][(lastTrap'.kind = "ecall" /\ lastTrap'.pid \in DOMAIN kernel.procs)
          => ~IsFrozen(kernel.procs[lastTrap'.pid])]_vars

\* C37: a thread that blocked in a syscall and is woken is made runnable at
\* the instruction after its ecall with a0 equal to the value of the waking
\* event, also when a signal handler was delivered to its process in the
\* iteration in which it blocked.
WokenSeesWakeValue ==
    [][\A i \in DOMAIN kernel'.woken :
          LET Sees(w) ==
                  w.tid \in DOMAIN kernel'.store
                     => /\ kernel'.store[w.tid].context.pc = 12 + 4
                        /\ kernel'.store[w.tid].context.a0 = w.ret
          IN Sees(kernel'.woken[i])]_vars

\* C38: a mutex_unlock or condvar_wait made by a user thread on an existing
\* mutex of its process that is not locked does not stop the kernel: the
\* dispatch loop goes on running after the call.
UnlockOfUnlockedKeepsRunning ==
    [][(/\ lastTrap'.kind = "ecall"
        /\ lastTrap'.call \in {"mutex_unlock", "condvar_wait"}
        /\ lastTrap'.pid \in DOMAIN kernel.procs)
          => LET Unlocked(proc, mutex_id) ==
                     /\ GetMutex(proc, mutex_id) # None
                     /\ ~Unwrap(GetMutex(proc, mutex_id)).locked
                 mutex_id == IF lastTrap'.call = "mutex_unlock"
                             THEN lastTrap'.args[1] ELSE lastTrap'.args[2]
             IN Unlocked(kernel.procs[lastTrap'.pid], mutex_id)
                   => kernel'.halted = "running"]_vars

\* the thread ids waiting in the mutexes, semaphores and condvars of proc
QueuedTids(proc) ==
    UNION {Range(Unwrap(proc.mutexes[i]).waiting) :
              i \in {j \in DOMAIN proc.mutexes : IsSome(proc.mutexes[j])}}
    \cup UNION {Range(proc.semaphores[i].waiting) : i \in DOMAIN proc.semaphores}
    \cup UNION {Range(proc.condvars[i]) : i \in DOMAIN proc.condvars}

\* C39: every thread id in a wait queue of a mutex, semaphore or condvar
\* names a thread that is in the task store and not on the ready queue (so
\* a waiter popped by unlock, up or signal is an existing blocked thread).
WaitQueuesHoldBlockedThreads ==
    \A p \in DOMAIN kernel.procs :
        \A t \in QueuedTids(kernel.procs[p]) :
            /\ t \in DOMAIN kernel.store
            /\ t \notin Range(kernel.ready)

\* C40: the context restored by sigreturn is written only into the thread
\* whose context was snapshotted: when one iteration enters a handler on
\* thread u (verdict Handled) and the next iteration is a sigreturn of the
\* same process that restores the snapshot (it returns 0), its caller is u.
SigreturnRestoresSnapshottedThread ==
    [][(/\ lastTrap.sig = Handled
        /\ lastTrap'.kind = "ecall"
        /\ lastTrap'.call = "sigreturn"
        /\ lastTrap'.pid = lastTrap.pid
        /\ lastTrap'.ret = 0)
          => lastTrap'.tid = lastTrap.tid]_vars

====
